---- MODULE Spec2Model ----
\* Hybrid query router of the CRM assistant: EnhancedChatbot (src/chatbot.py),
\* its Insight helpers (src/insights.py) and the RAG pipeline boundary
\* (src/rag_chatbot.py).  Strings are sequences of one-character strings so
\* that substring tests, whole-word tests and the regular expressions of the
\* code are computed, not assumed.  Probabilities are integers in percent
\* (0.2 is 20), complexity scores are integers in tenths (0.7 is 7).
EXTENDS Integers, Sequences, FiniteSets, TLC

\* ------------------------------------------------------------------ bounds
MaxRows == 2     \* longest enumerated dataset
MaxSeed == 1     \* states of the random generator are 0..MaxSeed

\* ------------------------------------------------------- program constants
TopN == 10              \* head(10), n=10, cand[:10]
RagThreshold == 7       \* rag_threshold = 0.7
LowScore == 2           \* return 0.2
BaseScore == 5          \* complexity_score = 0.5
KeywordStep == 1        \* += 0.1
ConjunctionStep == 2    \* += 0.2
MaxScore == 10          \* min(complexity_score, 1.0)
LowRiskBelow == 20      \* churn_prob < 0.2
UpsellChurnBelow == 40  \* churn_prob < 0.4
UpsellMaxDiversity == 2 \* product_diversity <= 2
HighChurnAbove == 60    \* prob > 0.6
LowEngagementBelow == 35 \* eng < 0.35
RecencyAbove == 90      \* recency_days > 90
ShownSuggestions == 5   \* DEFAULT_SUGGESTIONS[:5]

\* ---------------------------------------------------------------- lexicon
\* chatbot.py:52
GREETINGS ==
  << <<"h","i">>,
     <<"h","e","l","l","o">>,
     <<"h","e","y">>,
     <<"g","o","o","d"," ","m","o","r","n","i","n","g">>,
     <<"g","o","o","d"," ","a","f","t","e","r","n","o","o","n">>,
     <<"g","o","o","d"," ","e","v","e","n","i","n","g">> >>

\* chatbot.py:53
BYES ==
  << <<"b","y","e">>,
     <<"g","o","o","d","b","y","e">>,
     <<"s","e","e"," ","y","a">>,
     <<"t","a","l","k"," ","l","a","t","e","r">>,
     <<"s","e","e"," ","y","o","u">> >>

\* chatbot.py:54
THANKS ==
  << <<"t","h","a","n","k"," ","y","o","u">>,
     <<"t","h","a","n","k","s">>,
     <<"t","h","x">>,
     <<"t","h","a","n","k","y","o","u">> >>

\* chatbot.py:56-67
DEFAULT_SUGGESTIONS ==
  << <<"s","h","o","w"," ","t","o","p"," ","c","h","u","r","n"," ","a","c","c","o","u","n","t","s">>,
     <<"s","u","g","g","e","s","t"," ","u","p","s","e","l","l"," ","f","o","r"," ","h","i","g","h","-","v","a","l","u","e"," ","s","e","g","m","e","n","t">>,
     <<"s","h","o","w"," ","c","u","s","t","o","m","e","r"," ","s","e","g","m","e","n","t","s">>,
     <<"l","i","s","t"," ","l","o","w","-","r","i","s","k"," ","c","u","s","t","o","m","e","r","s">>,
     <<"s","h","o","w"," ","h","i","g","h","-","v","a","l","u","e"," ","c","u","s","t","o","m","e","r","s">>,
     <<"t","e","l","l"," ","m","e"," ","a","b","o","u","t"," ","C","0","0","0","0","1">>,
     <<"w","h","o"," ","a","r","e"," ","a","t"," ","r","i","s","k"," ","o","f"," ","c","h","u","r","n">>,
     <<"g","i","v","e"," ","d","e","t","a","i","l","s"," ","f","o","r"," ","2">>,
     <<"u","p","s","e","l","l"," ","c","a","n","d","i","d","a","t","e","s">>,
     <<"s","h","o","w"," ","d","i","s","t","r","i","b","u","t","i","o","n"," ","o","f"," ","s","e","g","m","e","n","t","s">> >>

\* chatbot.py:178-186, the intents dict in its insertion order

IntentNames ==
  << "churn", "high_risk", "low_risk", "high_value", "upsell", "segment", "customer" >>

intents ==
  << << <<"c","h","u","r","n">>,
        <<"a","t"," ","r","i","s","k">>,
        <<"l","i","k","e","l","y"," ","t","o"," ","c","a","n","c","e","l">>,
        <<"l","e","a","v","i","n","g">>,
        <<"s","h","o","w"," ","t","o","p"," ","c","h","u","r","n"," ","a","c","c","o","u","n","t","s">>,
        <<"w","h","o"," ","a","r","e"," ","a","t"," ","r","i","s","k">> >>,
     << <<"h","i","g","h"," ","r","i","s","k">>,
        <<"v","e","r","y"," ","r","i","s","k","y">>,
        <<"e","x","t","r","e","m","e"," ","c","h","u","r","n">> >>,
     << <<"l","o","w"," ","r","i","s","k">>,
        <<"s","a","f","e"," ","c","u","s","t","o","m","e","r","s">>,
        <<"l","o","y","a","l"," ","c","u","s","t","o","m","e","r","s">>,
        <<"l","i","s","t"," ","l","o","w","-","r","i","s","k"," ","c","u","s","t","o","m","e","r","s">> >>,
     << <<"h","i","g","h","-","v","a","l","u","e">>,
        <<"h","i","g","h"," ","v","a","l","u","e">>,
        <<"t","o","p"," ","c","u","s","t","o","m","e","r","s">>,
        <<"b","e","s","t"," ","c","u","s","t","o","m","e","r","s">>,
        <<"s","h","o","w"," ","h","i","g","h","-","v","a","l","u","e"," ","c","u","s","t","o","m","e","r","s">> >>,
     << <<"u","p","s","e","l","l">>,
        <<"c","r","o","s","s","-","s","e","l","l">>,
        <<"e","x","p","a","n","s","i","o","n">>,
        <<"g","r","o","w","t","h">>,
        <<"u","p","s","e","l","l"," ","c","a","n","d","i","d","a","t","e","s">>,
        <<"s","u","g","g","e","s","t"," ","u","p","s","e","l","l">> >>,
     << <<"s","e","g","m","e","n","t">>,
        <<"g","r","o","u","p">>,
        <<"d","i","s","t","r","i","b","u","t","i","o","n">>,
        <<"b","r","e","a","k","d","o","w","n">>,
        <<"s","h","o","w"," ","c","u","s","t","o","m","e","r"," ","s","e","g","m","e","n","t","s">>,
        <<"s","h","o","w"," ","d","i","s","t","r","i","b","u","t","i","o","n"," ","o","f"," ","s","e","g","m","e","n","t","s">> >>,
     << <<"t","e","l","l"," ","m","e"," ","a","b","o","u","t">>,
        <<"i","n","f","o"," ","o","n">>,
        <<"d","e","t","a","i","l","s"," ","f","o","r">>,
        <<"s","h","o","w"," ","c","u","s","t","o","m","e","r">>,
        <<"w","h","o"," ","i","s">> >> >>

\* chatbot.py:116-120
complex_indicators ==
  << <<"a","n","a","l","y","z","e">>,
     <<"c","o","m","p","a","r","e">>,
     <<"t","r","e","n","d">>,
     <<"p","a","t","t","e","r","n">>,
     <<"i","n","s","i","g","h","t">>,
     <<"r","e","c","o","m","m","e","n","d","a","t","i","o","n">>,
     <<"w","h","y">>,
     <<"h","o","w">>,
     <<"w","h","a","t"," ","i","f">>,
     <<"e","x","p","l","a","i","n">>,
     <<"d","e","s","c","r","i","b","e">>,
     <<"s","u","m","m","a","r","i","z","e">>,
     <<"r","e","l","a","t","i","o","n","s","h","i","p">>,
     <<"c","o","r","r","e","l","a","t","i","o","n">>,
     <<"i","m","p","a","c","t">>,
     <<"e","f","f","e","c","t">> >>

\* chatbot.py:160, the alternation of the follow-up pattern
FollowUpPhrases ==
  << <<"t","e","l","l"," ","m","e"," ","m","o","r","e"," ","a","b","o","u","t">>,
     <<"d","e","t","a","i","l","s"," ","f","o","r">>,
     <<"m","o","r","e"," ","a","b","o","u","t">>,
     <<"i","n","f","o"," ","o","n">> >>

\* chatbot.py:241, the alternation of the customer pattern
CustomerPhrases ==
  << <<"t","e","l","l"," ","m","e"," ","a","b","o","u","t">>,
     <<"i","n","f","o"," ","o","n">>,
     <<"d","e","t","a","i","l","s"," ","f","o","r">>,
     <<"s","h","o","w"," ","c","u","s","t","o","m","e","r">>,
     <<"w","h","o"," ","i","s">> >>

\* chatbot.py:98-108: each pattern is anchored at the start of the query; it is a
\* choice of literal prefixes followed by at least one character of a class
\* (\w+, \d+) or by nothing

simple_patterns ==
  << [lits |-> << <<"h","i">>, <<"h","e","l","l","o">>, <<"h","e","y">> >>, tail |-> "none"],
     [lits |-> << <<"b","y","e">>, <<"g","o","o","d","b","y","e">> >>, tail |-> "none"],
     [lits |-> << <<"t","h","a","n","k">>, <<"t","h","a","n","k","s">> >>, tail |-> "none"],
     [lits |-> << <<"s","h","o","w"," ","t","o","p">>, <<"s","h","o","w"," ","h","i","g","h">>, <<"s","h","o","w"," ","l","o","w">> >>, tail |-> "none"],
     [lits |-> << <<"l","i","s","t"," ","l","o","w">>, <<"l","i","s","t"," ","h","i","g","h">> >>, tail |-> "none"],
     [lits |-> << <<"t","e","l","l"," ","m","e"," ","a","b","o","u","t"," ">> >>, tail |-> "word"],
     [lits |-> << <<"g","i","v","e"," ","d","e","t","a","i","l","s"," ","f","o","r"," ">> >>, tail |-> "digit"],
     [lits |-> << <<"u","p","s","e","l","l"," ","c","a","n","d","i","d","a","t","e","s">> >>, tail |-> "none"],
     [lits |-> << <<"s","h","o","w"," ","d","i","s","t","r","i","b","u","t","i","o","n">> >>, tail |-> "none"] >>

\* The query texts a turn can carry.  A query is named by its position in
\* Queries.

Q_hi == <<"h","i">>

Q_thanks == <<"T","h","a","n","k","s","!">>

Q_bye == <<"o","k"," ","b","y","e">>

Q_thanks_hello == <<"t","h","a","n","k","s"," ","a","n","d"," ","h","e","l","l","o">>

Q_churn == <<"s","h","o","w"," ","t","o","p"," ","c","h","u","r","n"," ","a","c","c","o","u","n","t","s">>

Q_high_risk == <<"v","e","r","y"," ","r","i","s","k","y"," ","o","n","e","s">>

Q_low_risk == <<"l","i","s","t"," ","l","o","w","-","r","i","s","k"," ","c","u","s","t","o","m","e","r","s">>

Q_high_value == <<"s","h","o","w"," ","h","i","g","h","-","v","a","l","u","e"," ","c","u","s","t","o","m","e","r","s">>

Q_upsell == <<"u","p","s","e","l","l"," ","c","a","n","d","i","d","a","t","e","s">>

Q_segments == <<"s","h","o","w"," ","c","u","s","t","o","m","e","r"," ","s","e","g","m","e","n","t","s">>

Q_details_1 == <<"g","i","v","e"," ","d","e","t","a","i","l","s"," ","f","o","r"," ","1">>

Q_details_2 == <<"g","i","v","e"," ","d","e","t","a","i","l","s"," ","f","o","r"," ","2">>

Q_details_11 == <<"g","i","v","e"," ","d","e","t","a","i","l","s"," ","f","o","r"," ","1","1">>

Q_tell_c1 == <<"t","e","l","l"," ","m","e"," ","a","b","o","u","t"," ","C","1">>

Q_tell_zed == <<"t","e","l","l"," ","m","e"," ","a","b","o","u","t"," ","z","e","d">>

Q_unknown == <<"x","y","z","z","y"," ","q","u","u","x">>

Q_why_churn == <<"w","h","y"," ","i","s"," ","c","h","u","r","n"," ","r","i","s","i","n","g","?">>

Q_explain == <<"e","x","p","l","a","i","n"," ","a","n","d"," ","c","o","m","p","a","r","e">>

Q_why_segment == <<"e","x","p","l","a","i","n"," ","t","h","e"," ","s","e","g","m","e","n","t"," ","b","r","e","a","k","d","o","w","n","?">>

Q_analyze == <<"a","n","a","l","y","z","e"," ","t","h","e"," ","t","r","e","n","d"," ","a","n","d"," ","e","x","p","l","a","i","n"," ","w","h","y"," ","c","h","u","r","n"," ","c","o","r","r","e","l","a","t","e","s"," ","w","i","t","h"," ","e","n","g","a","g","e","m","e","n","t","?">>

Q_who_is_acme2 == <<"w","h","o"," ","i","s"," ","A","c","m","e","2">>

Q_who_is == <<"w","h","o"," ","i","s">>

Q_more_upsell == <<"m","o","r","e"," ","a","b","o","u","t"," ","2"," ","u","p","s","e","l","l">>

Q_why_details == <<"w","h","y"," ","d","e","t","a","i","l","s"," ","f","o","r"," ","2","?">>

Q_tell_c2 == <<"t","e","l","l"," ","m","e"," ","a","b","o","u","t"," ","c","2">>

Queries ==
  << Q_hi,
     Q_thanks,
     Q_bye,
     Q_thanks_hello,
     Q_churn,
     Q_high_risk,
     Q_low_risk,
     Q_high_value,
     Q_upsell,
     Q_segments,
     Q_details_1,
     Q_details_2,
     Q_details_11,
     Q_tell_c1,
     Q_tell_zed,
     Q_unknown,
     Q_why_churn,
     Q_explain,
     Q_why_segment,
     Q_analyze,
     Q_who_is_acme2,
     Q_who_is,
     Q_more_upsell,
     Q_why_details,
     Q_tell_c2 >>

QueryIds == DOMAIN Queries

UPPER == <<"A","B","C","D","E","F","G","H","I","J","K","L","M","N","O","P","Q","R","S","T","U","V","W","X","Y","Z">>

LOWER == <<"a","b","c","d","e","f","g","h","i","j","k","l","m","n","o","p","q","r","s","t","u","v","w","x","y","z">>

DIGITS == <<"0","1","2","3","4","5","6","7","8","9">>

\* ------------------------------------------------------- string functions
IndexIn(seq, c) == IF \E i \in DOMAIN seq : seq[i] = c
                   THEN CHOOSE i \in DOMAIN seq : seq[i] = c
                   ELSE 0

\* str.lower() on one character
LowerChar(c) == IF IndexIn(UPPER, c) > 0 THEN LOWER[IndexIn(UPPER, c)] ELSE c

\* str.upper() on one character
UpperChar(c) == IF IndexIn(LOWER, c) > 0 THEN UPPER[IndexIn(LOWER, c)] ELSE c

Lower(s) == [i \in 1..Len(s) |-> LowerChar(s[i])]

Upper(s) == [i \in 1..Len(s) |-> UpperChar(s[i])]

IsSpace(c) == c = " "

IsDigit(c) == IndexIn(DIGITS, c) > 0

\* the class \w of the re module
IsWordChar(c) == IndexIn(LOWER, c) > 0 \/ IndexIn(UPPER, c) > 0 \/ IsDigit(c) \/ c = "_"

\* the class [A-Za-z0-9_ -] of the customer pattern
IsIdentChar(c) == IsWordChar(c) \/ c = " " \/ c = "-"

\* str.strip()
Strip(s) ==
  LET keep == {i \in 1..Len(s) : ~IsSpace(s[i])}
  IN  IF keep = {} THEN <<>>
      ELSE SubSeq(s, CHOOSE i \in keep : \A j \in keep : i <= j,
                     CHOOSE i \in keep : \A j \in keep : i >= j)

\* w occurs in s starting at position p
MatchAt(s, p, w) ==
  /\ p >= 1
  /\ p + Len(w) - 1 <= Len(s)
  /\ \A k \in 1..Len(w) : s[p + k - 1] = w[k]

\* Python's  w in s
Contains(s, w) == \E p \in 1..(Len(s) - Len(w) + 1) : MatchAt(s, p, w)

\* is position i (1..Len(s)) of s a word character; positions outside are not
WordAt(s, i) == i >= 1 /\ i <= Len(s) /\ IsWordChar(s[i])

\* \b between positions i and i+1 of s
Boundary(s, i) == WordAt(s, i) # WordAt(s, i + 1)

\* re.search(r"\b" + re.escape(w) + r"\b", s)
WordSearch(s, w) ==
  \E p \in 1..(Len(s) - Len(w) + 1) :
    /\ MatchAt(s, p, w)
    /\ Boundary(s, p - 1)
    /\ Boundary(s, p + Len(w) - 1)

\* first position >= p of s that is not in the class, Len(s)+1 if none
InClass(cls, c) ==
  CASE cls = "space" -> IsSpace(c)
    [] cls = "digit" -> IsDigit(c)
    [] cls = "word"  -> IsWordChar(c)
    [] cls = "ident" -> IsIdentChar(c)
    [] OTHER -> FALSE

\* first position >= p of s whose character is not in the class, Len(s)+1 if
\* there is none: p plus the length of the run of class characters at p
RunEnd(s, p, cls) ==
  p + Cardinality({i \in p..Len(s) : \A j \in p..i : InClass(cls, s[j])})

\* int() of a run of digits
ToInt(ds) ==
  LET val[k \in 0..Len(ds)] ==
        IF k = 0 THEN 0 ELSE 10 * val[k - 1] + (IndexIn(DIGITS, ds[k]) - 1)
  IN  val[Len(ds)]

\* str() of a non-negative integer
ToStr(n) ==
  LET txt[k \in 0..n] ==
        IF k < 10 THEN <<DIGITS[k + 1]>>
        ELSE txt[k \div 10] \o <<DIGITS[(k % 10) + 1]>>
  IN  txt[n]

\* ---------------------------------------------------------- query analysis
_is_contained_any(phrase, words) ==
  \E i \in DOMAIN words : WordSearch(phrase, words[i])

\* which branch of _handle_social_interactions answers, "none" if none does
SocialCategory(qtext) ==
  LET q == Strip(Lower(qtext))
  IN  IF _is_contained_any(q, GREETINGS) THEN "greeting"
      ELSE IF _is_contained_any(q, THANKS) THEN "thanks"
      ELSE IF _is_contained_any(q, BYES) THEN "farewell"
      ELSE "none"

\* the module-level _is_contained_any: any(w in phrase for w in words)
contains_any(phrase, words) ==
  \E i \in DOMAIN words : Contains(phrase, words[i])

\* which social branch of the module-level handle_query answers (its three
\* lists are those of the class), "none" if none does
ContainedCategory(qtext) ==
  LET q == Strip(Lower(qtext))
  IN  IF contains_any(q, GREETINGS) THEN "greeting"
      ELSE IF contains_any(q, THANKS) THEN "thanks"
      ELSE IF contains_any(q, BYES) THEN "farewell"
      ELSE "none"

\* re.match(pattern, q) for one entry of simple_patterns
SimpleMatch(q, pat) ==
  \E i \in DOMAIN pat.lits :
    /\ MatchAt(q, 1, pat.lits[i])
    /\ \/ pat.tail = "none"
       \/ /\ Len(q) > Len(pat.lits[i])
          /\ InClass(pat.tail, q[Len(pat.lits[i]) + 1])

\* variant: the score without the cap min(complexity_score, 1.0)
_detect_query_complexity_uncapped(qtext) ==
  LET q == Strip(Lower(qtext))
      hits == Cardinality({i \in DOMAIN complex_indicators : Contains(q, complex_indicators[i])})
      extra == IF \/ Contains(qtext, <<"?">>)
                  \/ Contains(q, <<" ","a","n","d"," ">>)
                  \/ Contains(q, <<" ","o","r"," ">>)
               THEN ConjunctionStep ELSE 0
  IN  IF \E i \in DOMAIN simple_patterns : SimpleMatch(q, simple_patterns[i])
      THEN LowScore
      ELSE BaseScore + KeywordStep * hits + extra

_detect_query_complexity(qtext) ==
  LET q == Strip(Lower(qtext))
      hits == Cardinality({i \in DOMAIN complex_indicators : Contains(q, complex_indicators[i])})
      extra == IF \/ Contains(qtext, <<"?">>)
                  \/ Contains(q, <<" ","a","n","d"," ">>)
                  \/ Contains(q, <<" ","o","r"," ">>)
               THEN ConjunctionStep ELSE 0
      score == BaseScore + KeywordStep * hits + extra
  IN  IF \E i \in DOMAIN simple_patterns : SimpleMatch(q, simple_patterns[i])
      THEN LowScore
      ELSE IF score < MaxScore THEN score ELSE MaxScore

\* does intent number i have a trigger that is a substring of the phrase
IntentHit(phrase, i) == \E k \in DOMAIN intents[i] : Contains(phrase, intents[i][k])

\* variant: the last intent that has a trigger in the phrase wins
match_intent_last(phrase) ==
  IF \E i \in DOMAIN intents : IntentHit(phrase, i)
  THEN IntentNames[CHOOSE i \in DOMAIN intents :
                     /\ IntentHit(phrase, i)
                     /\ \A j \in (i + 1)..Len(intents) : ~IntentHit(phrase, j)]
  ELSE "none"

match_intent(phrase) ==
  IF \E i \in DOMAIN intents : IntentHit(phrase, i)
  THEN IntentNames[CHOOSE i \in DOMAIN intents :
                     /\ IntentHit(phrase, i)
                     /\ \A j \in 1..(i - 1) : ~IntentHit(phrase, j)]
  ELSE "none"

\* the pattern  (?:alternatives)\s+(\d+)  tried at position p with alternative j
FollowUpAt(s, p, j) ==
  /\ MatchAt(s, p, FollowUpPhrases[j])
  /\ LET e == p + Len(FollowUpPhrases[j])
         f == RunEnd(s, e, "space")
     IN  f > e /\ RunEnd(s, f, "digit") > f

\* the follow-up pattern matches at position p
FollowUpHit(s, p) == \E j \in DOMAIN FollowUpPhrases : FollowUpAt(s, p, j)

\* re.search of the follow-up pattern on query.lower(): the integer of the
\* leftmost match, -1 when the pattern does not match
FollowUpIndex(qtext) ==
  LET s == Lower(qtext)
  IN  IF \E p \in 1..Len(s) : FollowUpHit(s, p)
      THEN LET p == CHOOSE x \in 1..Len(s) :
                      FollowUpHit(s, x) /\ \A y \in 1..(x - 1) : ~FollowUpHit(s, y)
               j == CHOOSE a \in DOMAIN FollowUpPhrases :
                      /\ FollowUpAt(s, p, a)
                      /\ \A b \in 1..(a - 1) : ~FollowUpAt(s, p, b)
               f == RunEnd(s, p + Len(FollowUpPhrases[j]), "space")
           IN  ToInt(SubSeq(s, f, RunEnd(s, f, "digit") - 1))
      ELSE -1

\* the group of  (?:alternatives)\s+([A-Za-z0-9_ -]+)  tried at position p with
\* alternative j; <<>> when it does not match there.  \s+ is greedy and gives
\* one space back to the group when nothing of the class follows the spaces.
CustomerGroupAt(s, p, j) ==
  IF ~MatchAt(s, p, CustomerPhrases[j]) THEN <<>>
  ELSE LET e == p + Len(CustomerPhrases[j])
           f == RunEnd(s, e, "space")
       IN  IF f = e THEN <<>>
           ELSE IF f <= Len(s) /\ IsIdentChar(s[f])
                THEN SubSeq(s, f, RunEnd(s, f, "ident") - 1)
                ELSE IF f - e >= 2 THEN <<" ">> ELSE <<>>

\* the customer pattern matches at position p
CustomerHit(q, p) == \E j \in DOMAIN CustomerPhrases : CustomerGroupAt(q, p, j) # <<>>

\* re.search of the customer pattern on q, then .strip().upper():
\* [found, cid]
CustomerRef(q) ==
  IF \E p \in 1..Len(q) : CustomerHit(q, p)
  THEN LET p == CHOOSE x \in 1..Len(q) :
                  CustomerHit(q, x) /\ \A y \in 1..(x - 1) : ~CustomerHit(q, y)
           j == CHOOSE a \in DOMAIN CustomerPhrases :
                  /\ CustomerGroupAt(q, p, a) # <<>>
                  /\ \A b \in 1..(a - 1) : CustomerGroupAt(q, p, b) = <<>>
       IN  [found |-> TRUE, cid |-> Upper(Strip(CustomerGroupAt(q, p, j)))]
  ELSE [found |-> FALSE, cid |-> <<>>]

\* a function on 1..n as the sequence of its values
Tabulate(f) == f \o <<>>

\* what the handlers read off the text of a query: the branch of
\* _handle_social_interactions, the rank of the follow-up pattern (-1 when
\* it does not match), the complexity score in tenths, the intent of
\* match_intent and the match of the customer pattern
Analyse(qtext) ==
  [social |-> SocialCategory(qtext),
   contained |-> ContainedCategory(qtext),
   follow_up |-> FollowUpIndex(qtext),
   complexity |-> _detect_query_complexity(qtext),
   intent |-> match_intent(Strip(Lower(qtext))),
   customer |-> CustomerRef(Strip(Lower(qtext)))]

\* the analysis of every query text, computed once
QueryAnalysis == Tabulate([q \in QueryIds |-> Analyse(Queries[q])])

\* ------------------------------------------------------------- the dataset
\* Attribute profiles a row can have (the columns the code reads).
Profiles ==
  << [segment |-> "high_value", churn_prob |-> 30, engagement_score |-> 50,
      recency_days |-> 10, purchase_history |-> 900, product_diversity |-> 1,
      last_interaction_date |-> "2024-05-01"],
     [segment |-> "high_value", churn_prob |-> 10, engagement_score |-> 50,
      recency_days |-> 10, purchase_history |-> 500, product_diversity |-> 3,
      last_interaction_date |-> "2024-05-02"],
     [segment |-> "at_risk", churn_prob |-> 90, engagement_score |-> 20,
      recency_days |-> 120, purchase_history |-> 100, product_diversity |-> 1,
      last_interaction_date |-> "2024-01-03"],
     [segment |-> "mid_value", churn_prob |-> 50, engagement_score |-> 40,
      recency_days |-> 30, purchase_history |-> 300, product_diversity |-> 2,
      last_interaction_date |-> "2024-04-04"],
     [segment |-> "high_value", churn_prob |-> 15, engagement_score |-> 30,
      recency_days |-> 95, purchase_history |-> 700, product_diversity |-> 2,
      last_interaction_date |-> "2024-02-05"] >>

\* Row number i (1-based position in the file) with profile p.  pd.read_csv
\* gives the frame a RangeIndex, so the index label of the row is i - 1.
\* customer_id and company_name are unique per row.
MakeRow(i, p) ==
  [idx |-> i - 1,
   customer_id |-> <<"C">> \o ToStr(i),
   company_name |-> <<"A","c","m","e">> \o ToStr(i),
   segment |-> Profiles[p].segment,
   churn_prob |-> Profiles[p].churn_prob,
   engagement_score |-> Profiles[p].engagement_score,
   recency_days |-> Profiles[p].recency_days,
   purchase_history |-> Profiles[p].purchase_history,
   product_diversity |-> Profiles[p].product_diversity,
   last_interaction_date |-> Profiles[p].last_interaction_date]

\* every dataset of at most MaxRows rows
SmallDatasets ==
  UNION { { [i \in 1..n |-> MakeRow(i, ps[i])] : ps \in [1..n -> DOMAIN Profiles] }
          : n \in 0..MaxRows }

\* Datasets given by a pattern of profiles repeated up to a length: the
\* three-customer scenario (churn 0.9, 0.1, 0.5) and frames longer than the
\* head(10) cut.
LongLen == TopN + 2

PatternDatasets ==
  { [i \in 1..d.len |-> MakeRow(i, d.pat[((i - 1) % Len(d.pat)) + 1])] :
      d \in { [pat |-> <<3, 2, 4>>, len |-> 3],
               [pat |-> <<1, 5, 1, 5, 1, 5, 2>>, len |-> LongLen],
               [pat |-> <<5, 2>>, len |-> LongLen],
               [pat |-> <<3, 4, 1, 2, 5>>, len |-> LongLen] } }

\* A frame in which the company name of the first row reads, in another
\* case, like the customer id of the second row.
AliasDatasets ==
  { << [MakeRow(1, 3) EXCEPT !.company_name = <<"c", "2">>], MakeRow(2, 2) >> }

Datasets == SmallDatasets \cup PatternDatasets \cup AliasDatasets

Range(f) == { f[i] : i \in DOMAIN f }

\* DataFrame.sort_values(col, ascending).  The default sort is not guaranteed
\* stable: rows with equal keys come out in frame order (tie = "frame") or in
\* reverse frame order (tie = "reverse"); which one is a property of the build.
Precedes(a, b, col, ascending, tie) ==
  IF a[col] # b[col]
  THEN IF ascending THEN a[col] < b[col] ELSE a[col] > b[col]
  ELSE IF tie = "frame" THEN a.idx < b.idx ELSE a.idx > b.idx

\* r put at its place in a sorted sequence
InsertRow(sorted, r, col, ascending, tie) ==
  LET p == Cardinality({i \in DOMAIN sorted : Precedes(sorted[i], r, col, ascending, tie)})
  IN  SubSeq(sorted, 1, p) \o <<r>> \o SubSeq(sorted, p + 1, Len(sorted))

sort_values(rows, col, ascending, tie) ==
  LET srt[k \in 0..Len(rows)] ==
        IF k = 0 THEN <<>> ELSE InsertRow(srt[k - 1], rows[k], col, ascending, tie)
  IN  srt[Len(rows)]

\* DataFrame.head(n), list[:n]
head(rows, n) == SubSeq(rows, 1, IF Len(rows) < n THEN Len(rows) ELSE n)

\* ---------------------------------------------------------------- insights
\* insights.py:6-13
UPSELL_OFFERS ==
  << "Upgrade to the Enterprise Analytics Suite",
     "Adopt the AI-powered Customer Support Bot",
     "Add Advanced Security & Compliance module",
     "Bundle with Premium API Access",
     "Expand to Multi-User Collaboration features",
     "Upgrade to Dedicated Account Manager + Priority Support" >>

\* random.choice(options) as draw number k of a call made with the generator
\* in state seed
random_choice(options, seed, k) == options[((seed + k) % Len(options)) + 1]

\* variant: each threshold counts as passed when it is reached
Reasons_inclusive(row) ==
  (IF row.churn_prob >= HighChurnAbove THEN <<"high churn probability">> ELSE <<>>)
  \o (IF row.engagement_score <= LowEngagementBelow THEN <<"low engagement">> ELSE <<>>)
  \o (IF row.recency_days >= RecencyAbove THEN <<"no recent contact">> ELSE <<>>)

\* the reasons of customer_insight, in the order they are appended
Reasons(row) ==
  (IF row.churn_prob > HighChurnAbove THEN <<"high churn probability">> ELSE <<>>)
  \o (IF row.engagement_score < LowEngagementBelow THEN <<"low engagement">> ELSE <<>>)
  \o (IF row.recency_days > RecencyAbove THEN <<"no recent contact">> ELSE <<>>)

\* the fields the text of customer_insight is composed of
customer_insight(row) ==
  [kind |-> "narrative",
   name |-> row.company_name,
   seg |-> row.segment,
   prob |-> row.churn_prob,
   last |-> row.last_interaction_date,
   reasons |-> IF Reasons(row) # <<>> THEN Reasons(row) ELSE <<"mixed indicators">>,
   action |-> IF row.churn_prob > HighChurnAbove
              THEN "Recommend outreach: phone call within 48h + 10% renewal incentive."
              ELSE "Recommend targeted upsell or account review.",
   offer |-> ""]

\* variant: the rows with the lowest churn probability first
top_insights_ascending(df, n, tie) ==
  LET rows == head(sort_values(df, "churn_prob", TRUE, tie), n)
  IN  [i \in 1..Len(rows) |->
         [customer_id |-> rows[i].customer_id,
          company_name |-> rows[i].company_name,
          churn_prob |-> rows[i].churn_prob,
          insight |-> customer_insight(rows[i])]]

top_insights(df, n, tie) ==
  LET rows == head(sort_values(df, "churn_prob", FALSE, tie), n)
  IN  [i \in 1..Len(rows) |->
         [customer_id |-> rows[i].customer_id,
          company_name |-> rows[i].company_name,
          churn_prob |-> rows[i].churn_prob,
          insight |-> customer_insight(rows[i])]]

\* variant: the rule without the product_diversity condition
UpsellRule_any_diversity(row) ==
  /\ row.segment = "high_value"
  /\ row.churn_prob < UpsellChurnBelow

\* the condition of recommend_upsell
UpsellRule(row) ==
  /\ row.segment = "high_value"
  /\ row.product_diversity <= UpsellMaxDiversity
  /\ row.churn_prob < UpsellChurnBelow

\* the text recommend_upsell returns for a row that satisfies the rule, with
\* the offer picked by draw number k
recommend_upsell(row, seed, k) ==
  [kind |-> "upsell",
   name |-> row.company_name,
   seg |-> "", prob |-> 0, last |-> "", reasons |-> <<>>, action |-> "",
   offer |-> random_choice(UPSELL_OFFERS, seed, k)]

\* the empty string stored as insight by low_risk and high_value
EmptyInsight ==
  [kind |-> "empty", name |-> <<>>, seg |-> "", prob |-> 0, last |-> "",
   reasons |-> <<>>, action |-> "", offer |-> ""]

\* --------------------------------------------------------------- responses
\* A response is the text the code returns, kept as the parts it is built
\* from: kind names the f-string or literal, the other fields are its holes.
Resp(kind) ==
  [kind |-> kind, text |-> "", lines |-> <<>>, narrative |-> EmptyInsight,
   num |-> 0, ranks |-> <<>>, ident |-> <<>>, dist |-> {}, suggestions |-> <<>>]

\* Python's None as a return value
NoneResp == Resp("None")

\* chatbot.py:139-154
GreetingReplies ==
  << "Hello! I'm your AI-powered CRM assistant. I can help you with customer insights, churn analysis, and business recommendations. How can I assist you today?",
     "Hi there! I have access to your customer data and can provide detailed insights. What would you like to know about your customers?" >>

ThanksReplies ==
  << "You're welcome! I'm here whenever you need CRM insights.",
     "Happy to help! Feel free to ask me anything about your customer data." >>

FarewellReplies ==
  << "Goodbye! Thanks for using the CRM assistant!",
     "See you later! Keep those customer insights flowing!" >>

SocialReplies(category) ==
  CASE category = "greeting" -> GreetingReplies
    [] category = "thanks"   -> ThanksReplies
    [] category = "farewell" -> FarewellReplies
    [] OTHER -> <<>>

\* variant: every social query is answered from the greeting replies
_handle_social_interactions_greets(query, seed) ==
  IF query.social = "none" THEN NoneResp
  ELSE [Resp("greeting") EXCEPT !.text = random_choice(GreetingReplies, seed, 0)]

_handle_social_interactions(query, seed) ==
  IF query.social = "none" THEN NoneResp
  ELSE [Resp(query.social) EXCEPT
          !.text = random_choice(SocialReplies(query.social), seed, 0)]

\* ------------------------------------------------------------ the context
\* The dict passed to handle_query: has tells whether the key last_list is
\* present, list is its value.
EmptyContext == [has |-> FALSE, list |-> <<>>]

\* context.get('last_list') is truthy
HasList(context) == context.has /\ context.list # <<>>

_format_list_for_context(results) ==
  [lines |-> [i \in 1..Len(results) |->
                [num |-> i, company |-> results[i].company_name,
                 id |-> results[i].customer_id, value |-> results[i].churn_prob,
                 rec |-> EmptyInsight]],
   structured |-> [i \in 1..Len(results) |->
                [rank |-> i, id |-> results[i].customer_id,
                 company |-> results[i].company_name,
                 insight |-> results[i].insight]]]

\* variant: a follow-up phrase is answered from whatever the dict holds, so
\* with no list every rank is reported missing
_handle_follow_up_requests_any_dict(query, context, df) ==
  LET idx == query.follow_up
      list == context.list
      hits == {i \in DOMAIN list : list[i].rank = idx}
  IN  IF idx >= 0
      THEN IF hits # {}
           THEN LET it == list[CHOOSE i \in hits : \A j \in hits : i <= j]
                    row == SelectSeq(df, LAMBDA r : r.customer_id = it.id)
                IN  IF row = <<>>
                    THEN [Resp("detail_unloadable") EXCEPT !.num = idx, !.ident = it.id]
                    ELSE [Resp("detail") EXCEPT !.narrative = customer_insight(row[1])]
           ELSE [Resp("rank_error") EXCEPT
                   !.num = idx,
                   !.ranks = [i \in DOMAIN list |-> list[i].rank]]
      ELSE NoneResp

_handle_follow_up_requests(query, context, df) ==
  LET idx == query.follow_up
      list == context.list
      hits == {i \in DOMAIN list : list[i].rank = idx}
  IN  IF idx >= 0 /\ HasList(context)
      THEN IF hits # {}
           THEN LET it == list[CHOOSE i \in hits : \A j \in hits : i <= j]
                    row == SelectSeq(df, LAMBDA r : r.customer_id = it.id)
                IN  IF row = <<>>
                    THEN [Resp("detail_unloadable") EXCEPT !.num = idx, !.ident = it.id]
                    ELSE [Resp("detail") EXCEPT !.narrative = customer_insight(row[1])]
           ELSE [Resp("rank_error") EXCEPT
                   !.num = idx,
                   !.ranks = [i \in DOMAIN list |-> list[i].rank]]
      ELSE NoneResp

\* -------------------------------------------------------- the rule engine
\* Each branch returns [resp, context]: the return value and the dict after
\* the branch has run.
ChurnIntent(context, df, tie) ==
  LET f == _format_list_for_context(top_insights(df, TopN, tie))
  IN  [resp |-> [Resp("churn_list") EXCEPT !.lines = f.lines],
       context |-> [has |-> TRUE, list |-> f.structured]]

\* variant: the rows are sorted by descending churn_prob
LowRiskIntent_descending(context, df, tie) ==
  LET rows == head(sort_values(SelectSeq(df, LAMBDA r : r.churn_prob < LowRiskBelow),
                               "churn_prob", FALSE, tie), TopN)
  IN  IF rows = <<>>
      THEN [resp |-> [Resp("no_low_risk") EXCEPT !.text = "No low-risk customers found."],
            context |-> context]
      ELSE [resp |-> [Resp("low_risk_list") EXCEPT
                        !.lines = [k \in 1..Len(rows) |->
                                     [num |-> rows[k].idx + 1, company |-> rows[k].company_name,
                                      id |-> rows[k].customer_id, value |-> rows[k].churn_prob,
                                      rec |-> EmptyInsight]]],
            context |-> [has |-> TRUE,
                         list |-> [k \in 1..Len(rows) |->
                                     [rank |-> rows[k].idx + 1, id |-> rows[k].customer_id,
                                      company |-> rows[k].company_name,
                                      insight |-> EmptyInsight]]]]

\* rows.iterrows() yields (index label, row): i is the label of the row in
\* the frame, not its position in rows
LowRiskIntent(context, df, tie) ==
  LET rows == head(sort_values(SelectSeq(df, LAMBDA r : r.churn_prob < LowRiskBelow),
                               "churn_prob", TRUE, tie), TopN)
  IN  IF rows = <<>>
      THEN [resp |-> [Resp("no_low_risk") EXCEPT !.text = "No low-risk customers found."],
            context |-> context]
      ELSE [resp |-> [Resp("low_risk_list") EXCEPT
                        !.lines = [k \in 1..Len(rows) |->
                                     [num |-> rows[k].idx + 1, company |-> rows[k].company_name,
                                      id |-> rows[k].customer_id, value |-> rows[k].churn_prob,
                                      rec |-> EmptyInsight]]],
            context |-> [has |-> TRUE,
                         list |-> [k \in 1..Len(rows) |->
                                     [rank |-> rows[k].idx + 1, id |-> rows[k].customer_id,
                                      company |-> rows[k].company_name,
                                      insight |-> EmptyInsight]]]]

\* the lines use the index label (iterrows), the stored list the position
\* (enumerate(rows.itertuples(), start=1))
HighValueIntent(context, df, tie) ==
  LET rows == head(sort_values(SelectSeq(df, LAMBDA r : r.segment = "high_value"),
                               "purchase_history", FALSE, tie), TopN)
  IN  IF rows = <<>>
      THEN [resp |-> [Resp("no_high_value") EXCEPT !.text = "No high-value customers found."],
            context |-> context]
      ELSE [resp |-> [Resp("high_value_list") EXCEPT
                        !.lines = [k \in 1..Len(rows) |->
                                     [num |-> rows[k].idx + 1, company |-> rows[k].company_name,
                                      id |-> rows[k].customer_id, value |-> rows[k].purchase_history,
                                      rec |-> EmptyInsight]]],
            context |-> [has |-> TRUE,
                         list |-> [k \in 1..Len(rows) |->
                                     [rank |-> k, id |-> rows[k].customer_id,
                                      company |-> rows[k].company_name,
                                      insight |-> EmptyInsight]]]]

\* variant: the order of the candidates depends on the generator
UpsellCandidates_shuffled(df, seed) ==
  LET rows == SelectSeq(df, UpsellRule)
  IN  [k \in 1..Len(rows) |->
         [id |-> rows[IF seed % 2 = 1 THEN Len(rows) + 1 - k ELSE k].customer_id,
          company |-> rows[IF seed % 2 = 1 THEN Len(rows) + 1 - k ELSE k].company_name,
          rec |-> recommend_upsell(rows[IF seed % 2 = 1 THEN Len(rows) + 1 - k ELSE k], seed, k)]]

\* the candidates of the upsell branch, in frame order; the k-th candidate
\* found gets the k-th draw of the call
UpsellCandidates(df, seed) ==
  LET rows == SelectSeq(df, UpsellRule)
  IN  [k \in 1..Len(rows) |->
         [id |-> rows[k].customer_id, company |-> rows[k].company_name,
          rec |-> recommend_upsell(rows[k], seed, k)]]

UpsellIntent(context, df, seed) ==
  LET cand == UpsellCandidates(df, seed)
      shown == head(cand, TopN)
  IN  IF cand = <<>>
      THEN [resp |-> [Resp("no_upsell") EXCEPT
                        !.text = "No immediate upsell candidates found by the rule."],
            context |-> context]
      ELSE [resp |-> [Resp("upsell_list") EXCEPT
                        !.lines = [k \in 1..Len(shown) |->
                                     [num |-> k, company |-> shown[k].company,
                                      id |-> shown[k].id, value |-> 0, rec |-> shown[k].rec]]],
            context |-> [has |-> TRUE,
                         list |-> [k \in 1..Len(shown) |->
                                     [rank |-> k, id |-> shown[k].id,
                                      company |-> shown[k].company,
                                      insight |-> shown[k].rec]]]]

\* variant: the segment branch without context.pop('last_list', None)
SegmentIntent_keeps_list(context, df) ==
  [resp |-> [Resp("segment_distribution") EXCEPT
               !.dist = { <<s, Cardinality({i \in DOMAIN df : df[i].segment = s})>> :
                          s \in {df[i].segment : i \in DOMAIN df} }],
   context |-> context]

\* df['segment'].value_counts().to_dict(), then context.pop('last_list', None)
SegmentIntent(context, df) ==
  [resp |-> [Resp("segment_distribution") EXCEPT
               !.dist = { <<s, Cardinality({i \in DOMAIN df : df[i].segment = s})>> :
                          s \in {df[i].segment : i \in DOMAIN df} }],
   context |-> EmptyContext]

\* variant: the identifier is looked up in customer_id only
CustomerIntent_by_id(query, context, df) ==
  LET m == query.customer
      row == SelectSeq(df, LAMBDA r : Upper(r.customer_id) = m.cid)
  IN  IF ~m.found THEN [resp |-> NoneResp, context |-> context]
      ELSE IF row = <<>>
           THEN [resp |-> [Resp("customer_not_found") EXCEPT
                             !.ident = m.cid,
                             !.text = "No customer matching '{cid}'. Try a customer id like C00001."],
                 context |-> context]
           ELSE [resp |-> [Resp("customer_detail") EXCEPT !.narrative = customer_insight(row[1])],
                 context |-> context]

\* the customer branch: cid is m.group(1).strip().upper(); the rows whose
\* customer_id or company_name equals it in upper case are kept in frame
\* order and row.iloc[0] is described
CustomerIntent(query, context, df) ==
  LET m == query.customer
      row == SelectSeq(df, LAMBDA r : Upper(r.customer_id) = m.cid \/ Upper(r.company_name) = m.cid)
  IN  IF ~m.found THEN [resp |-> NoneResp, context |-> context]
      ELSE IF row = <<>>
           THEN [resp |-> [Resp("customer_not_found") EXCEPT
                             !.ident = m.cid,
                             !.text = "No customer matching '{cid}'. Try a customer id like C00001."],
                 context |-> context]
           ELSE [resp |-> [Resp("customer_detail") EXCEPT !.narrative = customer_insight(row[1])],
                 context |-> context]

_handle_rule_based_intents(query, context, df, tie, seed) ==
  LET intent == query.intent
  IN  CASE intent \in {"churn", "high_risk"} -> ChurnIntent(context, df, tie)
        [] intent = "low_risk"   -> LowRiskIntent(context, df, tie)
        [] intent = "high_value" -> HighValueIntent(context, df, tie)
        [] intent = "upsell"     -> UpsellIntent(context, df, seed)
        [] intent = "segment"    -> SegmentIntent(context, df)
        [] intent = "customer"   -> CustomerIntent(query, context, df)
        [] OTHER -> [resp |-> NoneResp, context |-> context]

\* ------------------------------------- the module-level handle_query
\* The rule-only path of handle_query(query, df, context), taken when the
\* enhanced chatbot is not used.
ModuleGreetingReplies ==
  << "Hello! How can I help with CRM insights today?",
     "Hi there - ask me about churn, segments, or upsell opportunities." >>

ModuleThanksReplies ==
  << "You're welcome!",
     "Happy to help!" >>

ModuleFarewellReplies ==
  << "Goodbye!",
     "Talk soon - good luck with the demo!" >>

ModuleSocialReplies(category) ==
  CASE category = "greeting" -> ModuleGreetingReplies
    [] category = "thanks"   -> ModuleThanksReplies
    [] category = "farewell" -> ModuleFarewellReplies
    [] OTHER -> <<>>

\* the reply when no branch answers
ModuleFallback == [Resp("fallback") EXCEPT !.text = "I didn't quite get that."]

\* The intent branches of the module-level function compute the same reply
\* as those of the class from the same lists and the same match_intent, and
\* return the context they were given: none of them writes to it.
ModuleIntentReply(query, df, tie, seed) ==
  _handle_rule_based_intents(query, EmptyContext, df, tie, seed).resp

\* handle_query(query, df, context) after its try block; reply is the reply
\* of the intent branches.  There is no follow-up step.
module_handle_query(query, df, context, tie, seed, reply) ==
  [response |-> IF query.contained # "none"
                THEN [Resp(query.contained) EXCEPT
                        !.text = random_choice(ModuleSocialReplies(query.contained), seed, 0)]
                ELSE IF reply # NoneResp THEN reply
                ELSE ModuleFallback,
   context |-> context]

\* ------------------------------------------------------- the RAG pipeline
\* What the collaborators of one chat call do: retrieval is "docs" (at least
\* one document), "zero" (none) or "error" (the embedding or the vector store
\* raises); generation is "text", "quotes_sentinel" (a text that contains
\* the sentence of the sentinel), "empty" or "error" (the model call raises),
\* and "unused" when the model is not reached.
RagOutcomes ==
  { [retrieval |-> "docs", generation |-> g] :
      g \in {"text", "quotes_sentinel", "empty", "error"} }
  \cup { [retrieval |-> r, generation |-> "unused"] : r \in {"zero", "error"} }

\* the value of the variable rag_outcome in a turn that made no chat call
NotCalled == [retrieval |-> "not_called", generation |-> "unused"]

\* number of documents _retrieve_relevant_documents returns: the except
\* branch returns []
_retrieve_relevant_documents(rag) == IF rag.retrieval = "docs" THEN 1 ELSE 0

_generate_response(rag) ==
  CASE rag.generation = "text" -> [Resp("rag_answer") EXCEPT !.text = "generated text"]
    [] rag.generation = "quotes_sentinel" ->
         [Resp("rag_answer_quoting_sentinel") EXCEPT
            !.text = "I couldn't find relevant information ... (generated)"]
    [] rag.generation = "empty" -> Resp("rag_empty")
    [] OTHER -> [Resp("rag_apology") EXCEPT
                   !.text = "I apologize, but I'm having trouble generating a response right now. Please try again."]

\* variant: the model is asked whatever the retrieval returned
chat_always_generates(rag) ==
  [resp |-> _generate_response(rag), llm_calls |-> 1]

\* RAGChatbot.chat: [resp, llm_calls]
chat(rag) ==
  IF _retrieve_relevant_documents(rag) = 0
  THEN [resp |-> [Resp("rag_sentinel") EXCEPT
                    !.text = "I couldn't find relevant information in the database. Please try rephrasing your question."],
        llm_calls |-> 0]
  ELSE [resp |-> _generate_response(rag), llm_calls |-> 1]

\* variant: every non-empty text of the pipeline is returned
RagUsable_any_text(resp) == resp.kind # "rag_empty"

\* rag_response and "I couldn't find relevant information" not in rag_response
RagUsable(resp) ==
  /\ resp.kind # "rag_empty"
  /\ resp.kind \notin {"rag_sentinel", "rag_answer_quoting_sentinel"}

\* ------------------------------------------------------------- the router
FinalFallback ==
  [Resp("fallback") EXCEPT
     !.text = "I didn't quite understand that query. Here are some things you can ask me:",
     !.suggestions = SubSeq(DEFAULT_SUGGESTIONS, 1, ShownSuggestions)]

\* the result of one call: the pair the call returns, and what it did
Outcome(resp, context, trace, rag_calls, llm_calls, rag_response) ==
  [response |-> resp, context |-> context, trace |-> trace,
   rag_calls |-> rag_calls, llm_calls |-> llm_calls, rag_response |-> rag_response]

\* self.use_rag and self.rag_chatbot: "on" when the pipeline is consulted,
\* "off" when it is not, "AttributeError" when the attribute rag_chatbot is
\* read on an instance that never assigned it
RagSwitch(use_rag, rag_chatbot) ==
  IF ~use_rag THEN "off"
  ELSE IF rag_chatbot = "unset" THEN "AttributeError"
  ELSE IF rag_chatbot = "object" THEN "on" ELSE "off"

\* variant: the pipeline is consulted before the rule engine whatever the score
Dispatch_rag_first(context, social, follow, simple, rule, switch, answer) ==
  LET rag_on == switch = "on"
      t2 == <<"social", "follow_up", "complexity">> \o (IF rag_on THEN <<"rag">> ELSE <<>>)
      calls == IF rag_on THEN 1 ELSE 0
      llm == IF rag_on THEN answer.llm_calls ELSE 0
      got == IF rag_on THEN answer.resp ELSE NoneResp
  IN  IF social # NoneResp
      THEN Outcome(social, context, <<"social">>, 0, 0, NoneResp)
      ELSE IF follow # NoneResp
      THEN Outcome(follow, context, <<"social", "follow_up">>, 0, 0, NoneResp)
      ELSE IF rag_on /\ RagUsable(answer.resp)
      THEN Outcome(answer.resp, context, t2, calls, llm, got)
      ELSE IF rule.resp # NoneResp
      THEN Outcome(rule.resp, rule.context, t2 \o <<"rule">>, calls, llm, got)
      ELSE Outcome(FinalFallback, context, t2 \o <<"rule", "fallback">>, calls, llm, got)

\* The order in which handle_query consults its steps, given what each step
\* returns.  trace lists the steps in the order they run.
Dispatch(context, social, follow, simple, rule, switch, answer) ==
  LET rag_on == switch = "on"
      t1 == <<"social", "follow_up", "complexity">> \o (IF simple THEN <<"rule">> ELSE <<>>)
      t2 == t1 \o (IF rag_on THEN <<"rag">> ELSE <<>>)
      t3 == t2 \o (IF simple THEN <<>> ELSE <<"rule">>)
      calls == IF rag_on THEN 1 ELSE 0
      llm == IF rag_on THEN answer.llm_calls ELSE 0
      got == IF rag_on THEN answer.resp ELSE NoneResp
  IN  IF social # NoneResp
      THEN Outcome(social, context, <<"social">>, 0, 0, NoneResp)
      ELSE IF follow # NoneResp
      THEN Outcome(follow, context, <<"social", "follow_up">>, 0, 0, NoneResp)
      ELSE IF simple /\ rule.resp # NoneResp
      THEN Outcome(rule.resp, rule.context, t1, 0, 0, NoneResp)
      ELSE IF switch = "AttributeError"
      THEN Outcome(Resp("AttributeError"), IF simple THEN rule.context ELSE context,
                   t1 \o <<"raise">>, 0, 0, NoneResp)
      ELSE IF rag_on /\ RagUsable(answer.resp)
      THEN Outcome(answer.resp, IF simple THEN rule.context ELSE context, t2, calls, llm, got)
      ELSE IF ~simple /\ rule.resp # NoneResp
      THEN Outcome(rule.resp, rule.context, t3, calls, llm, got)
      ELSE Outcome(FinalFallback, IF simple THEN rule.context ELSE context,
                   t3 \o <<"fallback">>, calls, llm, got)

\* variant: a call that was not given a dict answers from a dict of its own
\* and every other call from a copy of the dict it was given
BindContext_copies(given, context) ==
  [dict |-> IF given = "None" THEN EmptyContext ELSE context,
   returned |-> "created"]

\* if context is None: context = {}.  dict is the value of the dict the call
\* works on and returns; returned tells whether that object is the argument
\* or one the call created.
BindContext(given, context) ==
  [dict |-> IF given = "None" THEN EmptyContext ELSE context,
   returned |-> IF given = "None" THEN "created" ELSE "argument"]

\* variant: the rule engine is consulted before the pipeline whatever the score
handle_query_rule_first(query, context, df, tie, use_rag, rag_chatbot, rag_threshold, seed, rag) ==
  Dispatch(context,
           _handle_social_interactions(query, seed),
           _handle_follow_up_requests(query, context, df),
           TRUE,
           _handle_rule_based_intents(query, context, df, tie, seed),
           RagSwitch(use_rag, rag_chatbot),
           chat(rag))

\* EnhancedChatbot.handle_query
handle_query(query, context, df, tie, use_rag, rag_chatbot, rag_threshold, seed, rag) ==
  Dispatch(context,
           _handle_social_interactions(query, seed),
           _handle_follow_up_requests(query, context, df),
           query.complexity < rag_threshold,
           _handle_rule_based_intents(query, context, df, tie, seed),
           RagSwitch(use_rag, rag_chatbot),
           chat(rag))

\* ------------------------------------------------------------------ state
VARIABLES
  df,            \* self.df, the frame read at construction
  tie,           \* how the build orders rows with equal sort keys
  use_rag,       \* self.use_rag
  rag_chatbot,   \* self.rag_chatbot: "object", "None", or "unset" (never assigned)
  context,       \* the caller's context dict
  query,         \* the query of the last call (its position in Queries), 0 before the first
  prev_context,  \* the context dict as it was when the last call began
  response,      \* the text the last call returned
  trace,         \* the steps the last call ran
  rag_outcome,   \* what the collaborators did in the last call
  rag_response,  \* what RAGChatbot.chat returned in the last call, None if not called
  llm_calls,     \* language-model invocations of the last call
  repeated,      \* the last call carried the same query as the call before
                 \* it and was answered by the same branch
  passed,        \* the context argument of the last call: "dict" or "None"
  returned,      \* the context the last call returned: "argument" or "created"
  sessions,      \* the conversations served side by side, each with its own
                 \* context dict, the query of its call in progress, and the
                 \* context dict of the same conversation served alone
  described,    \* the argument of a call of customer_insight, <<>> before it
  insight,       \* what that call returned
  standalone     \* what the module-level handle_query returned for the query
                 \* of the last call, and the context dict of its caller

vars == <<df, tie, use_rag, rag_chatbot, context, query, prev_context,
          response, trace, rag_outcome, rag_response, llm_calls, repeated,
          passed, returned, sessions, described, insight,
          standalone>>

Seeds == 0..MaxSeed

\* variant: a failed construction of RAGChatbot leaves use_rag as given
Construct_keeps_use_rag(use_rag_arg, rag_init_ok) ==
  /\ use_rag = use_rag_arg
  /\ rag_chatbot = IF use_rag_arg
                   THEN (IF rag_init_ok THEN "object" ELSE "unset")
                   ELSE "None"

\* EnhancedChatbot.__init__: use_rag is the argument; when the construction
\* of RAGChatbot raises, use_rag is reset and rag_chatbot is never assigned.
Construct(use_rag_arg, rag_init_ok) ==
  /\ use_rag = (use_rag_arg /\ rag_init_ok)
  /\ rag_chatbot = IF use_rag_arg
                   THEN (IF rag_init_ok THEN "object" ELSE "unset")
                   ELSE "None"

\* The builds worth telling apart for a frame: the order of rows with equal
\* keys shows only in a frame that has two rows with the same churn_prob or
\* the same purchase_history.
SortBuilds(frame) ==
  IF \E i, j \in DOMAIN frame :
        /\ i < j
        /\ \/ frame[i].churn_prob = frame[j].churn_prob
           \/ frame[i].purchase_history = frame[j].purchase_history
  THEN {"frame", "reverse"} ELSE {"frame"}

\* the conversations a process serves side by side
Sessions == {"a", "b"}

\* a conversation that has not asked anything yet
NewSession == [context |-> EmptyContext, pending |-> 0, alone |-> EmptyContext]

\* the caller before its first call
Idle ==
  /\ sessions = [s \in Sessions |-> NewSession]
  /\ described = <<>>
  /\ insight = EmptyInsight
  /\ standalone = [response |-> NoneResp, context |-> EmptyContext]
  /\ context = EmptyContext
  /\ query = 0
  /\ prev_context = EmptyContext
  /\ response = NoneResp
  /\ trace = <<>>
  /\ rag_outcome = NotCalled
  /\ rag_response = NoneResp
  /\ llm_calls = 0
  /\ repeated = FALSE
  /\ passed = "dict"
  /\ returned = "argument"

Init ==
  /\ df \in Datasets
  /\ tie \in SortBuilds(df)
  /\ \E use_rag_arg \in BOOLEAN, rag_init_ok \in BOOLEAN : Construct(use_rag_arg, rag_init_ok)
  /\ Idle

\* only the social replies and the upsell branch draw from the generator
Draws(asked) == asked.social # "none" \/ asked.intent = "upsell"

\* the generator states worth telling apart for a query
SeedsFor(q) == IF q \in QueryIds /\ Draws(QueryAnalysis[q]) THEN Seeds ELSE {0}

\* variant: the list expires in a turn that ends in the final fallback
Returned_list_expires(q, bound, given, out, rag) ==
  /\ context' = IF out.response.kind = "fallback" THEN EmptyContext ELSE out.context
  /\ query' = q
  /\ prev_context' = bound.dict
  /\ response' = out.response
  /\ trace' = out.trace
  /\ rag_outcome' = rag
  /\ rag_response' = out.rag_response
  /\ llm_calls' = out.llm_calls
  /\ repeated' = (q = query /\ out.response.kind = response.kind)
  /\ passed' = given
  /\ returned' = bound.returned
  /\ UNCHANGED <<df, tie, use_rag, rag_chatbot, sessions, described, insight>>

\* the state after a call that was given the context bound and returned out,
\* with collaborators behaving as rag
Returned(q, bound, given, out, rag) ==
  /\ context' = out.context
  /\ query' = q
  /\ prev_context' = bound.dict
  /\ response' = out.response
  /\ trace' = out.trace
  /\ rag_outcome' = rag
  /\ rag_response' = out.rag_response
  /\ llm_calls' = out.llm_calls
  /\ repeated' = (q = query /\ out.response.kind = response.kind)
  /\ passed' = given
  /\ returned' = bound.returned
  /\ UNCHANGED <<df, tie, use_rag, rag_chatbot, sessions, described, insight>>

\* The collaborators take part only in a call that reaches the RAG pipeline,
\* and whether it does never depends on what they would do.
Collaborators(probe) == IF probe.rag_calls = 0 THEN {NotCalled} ELSE RagOutcomes

\* What the caller passes as context: the dict it holds, or None on the
\* first call of the conversation.
Arguments(started) == IF started THEN {"dict"} ELSE {"dict", "None"}

\* one call handle_query(Queries[q], context) by the caller that owns context
HandleQuery(q, seed) ==
  \E asked \in {QueryAnalysis[q]} :
   \E given \in Arguments(query # 0) :
    \E bound \in {BindContext(given, context)} :
     \E probe \in {handle_query(asked, bound.dict, df, tie, use_rag, rag_chatbot,
                                 RagThreshold, seed, NotCalled)} :
      \E rag \in Collaborators(probe) :
       \E out \in {IF rag = NotCalled THEN probe
                    ELSE handle_query(asked, bound.dict, df, tie, use_rag, rag_chatbot,
                                      RagThreshold, seed, rag)} :
         Returned(q, bound, given, out, rag)

Next ==
  \E q \in QueryIds : \E seed \in SeedsFor(q) :
     HandleQuery(q, seed) /\ UNCHANGED standalone

Spec == Init /\ [][Next]_vars

\* ------------------------------------------------- conversations side by side
\* One EnhancedChatbot serves the conversations of Sessions.  Each conversation
\* passes its own dict to handle_query; the frame, the RAG pipeline and the
\* random generator belong to the process.  A call is entered (BeginTurn) and
\* returns later (FinishTurn), so calls of different conversations overlap.

\* the frames served to several conversations
SessionDatasets == PatternDatasets

\* the queries the conversations ask
SessionQueries ==
  {q \in QueryIds : Queries[q] \in {Q_hi, Q_churn, Q_low_risk, Q_upsell, Q_segments,
                                    Q_details_1, Q_why_churn, Q_unknown}}

InitSessions ==
  /\ df \in SessionDatasets
  /\ tie \in SortBuilds(df)
  /\ \E use_rag_arg \in BOOLEAN, rag_init_ok \in BOOLEAN : Construct(use_rag_arg, rag_init_ok)
  /\ Idle

\* variant: the process keeps one context dict and hands it to every call
Served_one_dict(held, s, out, solo) ==
  [t \in Sessions |-> [context |-> out.context,
                       pending |-> IF t = s THEN 0 ELSE held[t].pending,
                       alone |-> IF t = s THEN solo.context ELSE held[t].alone]]

\* the conversations after the call of s returned out (and solo when s is
\* served alone): handle_query writes to the dict it was given, and the
\* caller keeps the dict the call returns
Served(held, s, out, solo) ==
  [held EXCEPT ![s] = [context |-> out.context, pending |-> 0, alone |-> solo.context]]

\* conversation s enters handle_query(Queries[q], its own dict)
BeginTurn(s, q) ==
  /\ sessions[s].pending = 0
  /\ sessions' = [sessions EXCEPT ![s].pending = q]
  /\ UNCHANGED <<df, tie, use_rag, rag_chatbot, context, query, prev_context,
                 response, trace, rag_outcome, rag_response, llm_calls, repeated,
                 passed, returned, described, insight, standalone>>

\* The call of conversation s returns.  seed is the state in which the call
\* finds the generator of the process, which depends on the calls of the
\* other conversations; alone_seed is the state it finds when s is the only
\* conversation.  The collaborators answer a query the same way in both.
FinishTurn(s, seed, alone_seed) ==
  /\ sessions[s].pending # 0
  /\ \E asked \in {QueryAnalysis[sessions[s].pending]} :
      \E probe \in {handle_query(asked, sessions[s].context, df, tie, use_rag, rag_chatbot,
                                  RagThreshold, seed, NotCalled)} :
       \E rag \in Collaborators(probe) :
        \E out \in {IF rag = NotCalled THEN probe
                     ELSE handle_query(asked, sessions[s].context, df, tie, use_rag,
                                       rag_chatbot, RagThreshold, seed, rag)} :
         \E solo \in {handle_query(asked, sessions[s].alone, df, tie, use_rag,
                                    rag_chatbot, RagThreshold, alone_seed, rag)} :
           sessions' = Served(sessions, s, out, solo)
  /\ UNCHANGED <<df, tie, use_rag, rag_chatbot, context, query, prev_context,
                 response, trace, rag_outcome, rag_response, llm_calls, repeated,
                 passed, returned, described, insight, standalone>>

NextSessions ==
  \E s \in Sessions :
    \/ \E q \in SessionQueries : BeginTurn(s, q)
    \/ \E seed \in SeedsFor(sessions[s].pending), alone_seed \in SeedsFor(sessions[s].pending) :
         FinishTurn(s, seed, alone_seed)

SpecSessions == InitSessions /\ [][NextSessions]_vars

\* ------------------------------------------------------ the insight formatter
\* customer_insight applied to one row.  The rows are those of a frame file:
\* every field around each threshold of the function.

\* values below, at and above a threshold
Around(threshold) == {0, threshold - 1, threshold, threshold + 1, threshold + threshold}

InsightRows ==
  { [MakeRow(1, 1) EXCEPT !.segment = seg, !.churn_prob = prob,
                          !.engagement_score = eng, !.recency_days = days] :
      seg \in {"high_value", "at_risk"},
      prob \in {p \in Around(HighChurnAbove) : p <= 100},
      eng \in {e \in Around(LowEngagementBelow) : e <= 100},
      days \in Around(RecencyAbove) }

\* customer_insight has not been called; the chatbot stands by
InitInsight ==
  /\ df = <<>>
  /\ tie = "frame"
  /\ Construct(FALSE, FALSE)
  /\ sessions = [s \in Sessions |-> NewSession]
  /\ context = EmptyContext
  /\ query = 0
  /\ prev_context = EmptyContext
  /\ response = NoneResp
  /\ trace = <<>>
  /\ rag_outcome = NotCalled
  /\ rag_response = NoneResp
  /\ llm_calls = 0
  /\ repeated = FALSE
  /\ passed = "dict"
  /\ returned = "argument"
  /\ described = <<>>
  /\ insight = EmptyInsight
  /\ standalone = [response |-> NoneResp, context |-> EmptyContext]

\* one call customer_insight(r)
Describe(r) ==
  /\ described' = r
  /\ insight' = customer_insight(r)
  /\ UNCHANGED <<df, tie, use_rag, rag_chatbot, context, query, prev_context,
                 response, trace, rag_outcome, rag_response, llm_calls, repeated,
                 passed, returned, sessions, standalone>>

NextInsight == \E r \in InsightRows : Describe(r)

SpecInsight == InitInsight /\ [][NextInsight]_vars

\* ------------------------------------------- the two rule-based paths
\* The same queries go, turn by turn, to an EnhancedChatbot with RAG disabled
\* and to the rule-only path of the module-level handle_query, each caller
\* holding the context dict its own calls returned.
InitTwin ==
  /\ df \in Datasets
  /\ tie \in SortBuilds(df)
  /\ \E rag_init_ok \in BOOLEAN : Construct(FALSE, rag_init_ok)
  /\ Idle

\* one call of each function with Queries[q]
TwinTurn(q, seed, module_seed) ==
  /\ HandleQuery(q, seed)
  /\ \E asked \in {QueryAnalysis[q]} :
       standalone' = module_handle_query(asked, df, standalone.context, tie, module_seed,
                                         ModuleIntentReply(asked, df, tie, module_seed))

NextTwin ==
  \E q \in QueryIds : \E seed \in SeedsFor(q), module_seed \in SeedsFor(q) :
     TwinTurn(q, seed, module_seed)

SpecTwin == InitTwin /\ [][NextTwin]_vars

\* ==================================================================
\* Properties
\* ==================================================================
SocialCategories == {"greeting", "thanks", "farewell"}

Triggers(category) ==
  CASE category = "greeting" -> GREETINGS
    [] category = "thanks"   -> THANKS
    [] category = "farewell" -> BYES

\* for every query text, the social categories it holds a trigger of as a
\* whole word
QueryTriggers ==
  Tabulate([q \in QueryIds |->
     {c \in SocialCategories : _is_contained_any(Strip(Lower(Queries[q])), Triggers(c))}])

\* a call has been made
Called == query # 0

ListKinds == {"churn_list", "low_risk_list", "high_value_list", "upsell_list"}

RuleKinds == ListKinds \cup {"no_low_risk", "no_high_value", "no_upsell",
                             "segment_distribution", "customer_detail", "customer_not_found"}

FollowUpKinds == {"detail", "detail_unloadable", "rank_error"}

\* C1: a query that contains a greeting, thanks or farewell trigger as a
\* whole word is answered by one of the fixed replies of a category it has a
\* trigger of, and the context (last_list present with the same items, or
\* absent) is as it was before the call.
C1_SocialReplyKeepsList ==
  (Called /\ QueryTriggers[query] # {}) =>
     /\ \E c \in QueryTriggers[query] : response.text \in Range(SocialReplies(c))
     /\ context = prev_context

C1_Witness ==
  /\ Called
  /\ QueryTriggers[query] # {}
  /\ HasList(prev_context)
  /\ response.kind \in SocialCategories
  /\ context = prev_context

\* C2 (as claimed): after a turn in which a list-producing intent stored a
\* list, the ranks of last_list are exactly 1..N with no gap and no
\* duplicate, N <= 10, and every id is the customer_id of a row of the
\* dataset.
C2_DenseRanks ==
  (Called /\ response.kind \in ListKinds) =>
     /\ context.has
     /\ Len(context.list) <= TopN
     /\ {context.list[i].rank : i \in DOMAIN context.list} = 1..Len(context.list)
     /\ \A i \in DOMAIN context.list :
          \E k \in DOMAIN df : df[k].customer_id = context.list[i].id

\* what the handlers read off the query of the last call
Asked == QueryAnalysis[query]

\* the position of a query text in Queries
QueryOf(qtext) == CHOOSE q \in QueryIds : Queries[q] = qtext

\* C3 (as claimed): when the same list-producing query is issued twice in a
\* row, last_list after the second call equals last_list after the first
\* call in rank, id, company and insight of every item, whatever the random
\* choices of the two calls.
C3_SameListTwice ==
  (repeated /\ response.kind \in ListKinds) => context = prev_context

\* C3 (amended): when the same list-producing query is issued twice in a
\* row, last_list after the second call has the same length as after the
\* first call and the same rank, id and company in every item; the insight
\* of every item is the same for churn, high_risk, low_risk and high_value,
\* while an upsell insight is a recommendation for the same company that may
\* name another offer of the catalog.
C3_SameRanking ==
  (repeated /\ response.kind \in ListKinds) =>
     /\ context.has /\ prev_context.has
     /\ Len(context.list) = Len(prev_context.list)
     /\ \A i \in DOMAIN context.list :
          /\ context.list[i].rank = prev_context.list[i].rank
          /\ context.list[i].id = prev_context.list[i].id
          /\ context.list[i].company = prev_context.list[i].company
          /\ response.kind # "upsell_list" =>
               context.list[i].insight = prev_context.list[i].insight
          /\ response.kind = "upsell_list" =>
               /\ context.list[i].insight.name = prev_context.list[i].insight.name
               /\ context.list[i].insight.offer \in Range(UPSELL_OFFERS)

C3_Witness ==
  /\ repeated
  /\ response.kind = "upsell_list"
  /\ Len(context.list) = Len(prev_context.list)
  /\ \E i \in DOMAIN context.list :
       /\ context.list[i].id = prev_context.list[i].id
       /\ context.list[i].insight.offer # prev_context.list[i].insight.offer

\* C4 (as claimed): with a last_list of N items stored by an earlier turn, a
\* follow-up query for rank r with 1 <= r <= N returns the insight text of
\* the dataset row whose customer_id is the id of the r-th item of the list,
\* a follow-up for r outside 1..N returns the error that names the ranks
\* 1..N, and last_list is unchanged in both cases.
C4_FollowUpResolves ==
  (Called /\ Asked.social = "none" /\ Asked.follow_up >= 0 /\ HasList(prev_context)) =>
     /\ context = prev_context
     /\ IF Asked.follow_up \in 1..Len(prev_context.list)
        THEN /\ response.kind = "detail"
             /\ \E k \in DOMAIN df :
                  /\ df[k].customer_id = prev_context.list[Asked.follow_up].id
                  /\ response.narrative = customer_insight(df[k])
        ELSE /\ response.kind = "rank_error"
             /\ response.num = Asked.follow_up
             /\ Range(response.ranks) = 1..Len(prev_context.list)

\* C5: a call with "show customer segments", or with any query that the
\* segment intent answers, ends with a context without last_list, with RAG
\* enabled or disabled, and the call that follows it is not answered by
\* follow-up resolution.
C5_Step ==
  /\ (query' = QueryOf(Q_segments) \/ response'.kind = "segment_distribution") =>
        /\ response'.kind = "segment_distribution"
        /\ context' = EmptyContext
  /\ (Called /\ response.kind = "segment_distribution") =>
        response'.kind \notin FollowUpKinds

C5_SegmentClearsList == [][C5_Step]_vars

C5_Witness ==
  /\ query = QueryOf(Q_segments)
  /\ HasList(prev_context)
  /\ use_rag
  /\ response.kind = "segment_distribution"
  /\ ~context.has

\* the items of list are in order of non-increasing churn_prob of their rows
ByChurnDescending(list) ==
  \A i, j \in DOMAIN list : i < j =>
     \A a, b \in DOMAIN df :
        (df[a].customer_id = list[i].id /\ df[b].customer_id = list[j].id) =>
           df[a].churn_prob >= df[b].churn_prob

\* the row with customer id ident has the highest churn_prob of the dataset
HasMaxChurn(ident) ==
  \E a \in DOMAIN df :
     /\ df[a].customer_id = ident
     /\ \A b \in DOMAIN df : df[b].churn_prob <= df[a].churn_prob

\* C6 (as claimed): for every dataset, after "show top churn accounts" the
\* stored list is in order of non-increasing churn_prob with a customer of
\* maximum churn_prob at rank 1, and "give details for 1" right after it
\* returns a narrative that mentions the id of that customer and contains
\* "high churn probability" when its churn_prob is above 0.6.
C6_StepAsClaimed ==
  /\ query' = QueryOf(Q_churn) =>
        /\ ByChurnDescending(context'.list)
        /\ context'.list # <<>>
        /\ context'.list[1].rank = 1
        /\ HasMaxChurn(context'.list[1].id)
  /\ (query = QueryOf(Q_churn) /\ query' = QueryOf(Q_details_1)) =>
        /\ response'.kind = "detail"
        /\ Contains(response'.narrative.name, context.list[1].id)
        /\ \A a \in DOMAIN df :
             (df[a].customer_id = context.list[1].id /\ df[a].churn_prob > HighChurnAbove) =>
                "high churn probability" \in Range(response'.narrative.reasons)

C6_ChurnThenDetailsById == [][C6_StepAsClaimed]_vars

\* C6 (amended): for every dataset with at least one row, all rows carrying
\* a company_name, after "show top churn accounts" the stored list is in
\* order of non-increasing churn_prob with a customer of maximum churn_prob
\* at rank 1, and "give details for 1" right after it returns the narrative
\* of that customer, which names the customer by company_name (not by
\* customer id) and contains "high churn probability" when its churn_prob is
\* above 0.6.
C6_Step ==
  /\ (query' = QueryOf(Q_churn) /\ df # <<>>) =>
        /\ ByChurnDescending(context'.list)
        /\ context'.list # <<>>
        /\ context'.list[1].rank = 1
        /\ HasMaxChurn(context'.list[1].id)
  /\ (query = QueryOf(Q_churn) /\ query' = QueryOf(Q_details_1) /\ df # <<>>) =>
        /\ response'.kind = "detail"
        /\ context' = context
        /\ \E a \in DOMAIN df :
             /\ df[a].customer_id = context.list[1].id
             /\ response'.narrative.name = df[a].company_name
             /\ ~Contains(response'.narrative.name, df[a].customer_id)
             /\ response'.narrative.prob = df[a].churn_prob
             /\ df[a].churn_prob > HighChurnAbove =>
                  "high churn probability" \in Range(response'.narrative.reasons)

C6_ChurnThenDetails == [][C6_Step]_vars

\* the three-customer scenario: churn 0.9, 0.1, 0.5, details of rank 1
C6_Witness ==
  /\ query = QueryOf(Q_details_1)
  /\ Len(df) = 3
  /\ df[1].churn_prob = 90 /\ df[2].churn_prob = 10 /\ df[3].churn_prob = 50
  /\ HasList(prev_context)
  /\ [i \in DOMAIN prev_context.list |-> prev_context.list[i].id]
       = <<df[1].customer_id, df[3].customer_id, df[2].customer_id>>
  /\ prev_context.list[1].insight.kind = "narrative"
  /\ response.kind = "detail"
  /\ response.narrative.name = df[1].company_name
  /\ "high churn probability" \in Range(response.narrative.reasons)

\* the rows the upsell rule selects, written out: segment high_value,
\* product_diversity at most 2, churn_prob below 0.4
Candidates ==
  SelectSeq(df, LAMBDA r : /\ r.segment = "high_value"
                           /\ r.product_diversity <= 2
                           /\ r.churn_prob < 40)

\* C7: for every dataset the candidates of the upsell intent are exactly the
\* rows with segment high_value, product_diversity <= 2 and churn_prob < 0.4;
\* the stored list and the displayed list are the first min(10, count)
\* candidates in frame order; with no candidate the reply is the "none found"
\* message and last_list is as before the call.  (The upsell intent is
\* reached by a query that the social step and the follow-up step pass on.)
C7_UpsellRule ==
  (/\ Called /\ Asked.intent = "upsell" /\ Asked.social = "none"
   /\ (Asked.follow_up < 0 \/ ~HasList(prev_context))) =>
     IF Candidates = <<>>
     THEN /\ response.kind = "no_upsell"
          /\ context = prev_context
     ELSE /\ response.kind = "upsell_list"
          /\ context.has
          /\ Len(context.list) = (IF Len(Candidates) < 10 THEN Len(Candidates) ELSE 10)
          /\ Len(response.lines) = Len(context.list)
          /\ \A k \in DOMAIN context.list :
               /\ context.list[k].id = Candidates[k].customer_id
               /\ context.list[k].rank = k
               /\ response.lines[k].id = Candidates[k].customer_id
               /\ response.lines[k].num = k

C7_Witness ==
  /\ Called
  /\ response.kind = "upsell_list"
  /\ Len(Candidates) > 10
  /\ Len(context.list) = 10
  /\ \E a \in DOMAIN df :
       /\ df[a].segment = "high_value"
       /\ df[a].product_diversity = 3
       /\ df[a].churn_prob < 40
       /\ \A k \in DOMAIN context.list : context.list[k].id # df[a].customer_id

\* the call handed the query to the RAG pipeline
RagAttempted == rag_outcome # NotCalled

\* the RAG pipeline gave no usable answer: nothing, the "nothing relevant
\* found" sentinel, or the apology of a failed collaborator
NoUsableAnswer == rag_response.kind \in {"rag_empty", "rag_sentinel", "rag_apology"}

\* the query of the last call hits no social trigger, no follow-up pattern
\* and no intent trigger
Unrecognized ==
  /\ QueryTriggers[query] = {}
  /\ Asked.follow_up < 0
  /\ Asked.intent = "none"

\* the response is the "didn't understand" message with at least one
\* example query of the catalog
IsFinalFallback ==
  /\ response.kind = "fallback"
  /\ response.suggestions # <<>>
  /\ Range(response.suggestions) \subseteq Range(DEFAULT_SUGGESTIONS)

\* C8 (as claimed): a query that hits no social trigger, no follow-up
\* pattern and no intent trigger, in a turn where RAG is disabled or gives
\* no usable answer, returns the "didn't understand" message with at least
\* one example query of the suggestion catalog, and the context is returned
\* unchanged.
C8_FinalFallback ==
  (Called /\ Unrecognized /\ (~RagAttempted \/ NoUsableAnswer)) =>
     /\ IsFinalFallback
     /\ context = prev_context

\* C9: whenever retrieval yields zero documents, RAGChatbot.chat returns the
\* "nothing relevant found" sentinel without calling the language model, and
\* handle_query does not return the sentinel: the response is the one of the
\* rule engine, run after RAG for a query whose score is at least the
\* threshold, or the final fallback.
C9_SentinelNotReturned ==
  (Called /\ rag_outcome.retrieval \in {"zero", "error"}) =>
     /\ rag_response.kind = "rag_sentinel"
     /\ llm_calls = 0
     /\ response.kind # "rag_sentinel"
     /\ response # rag_response
     /\ \/ /\ response.kind \in RuleKinds
           /\ Asked.complexity >= RagThreshold
           /\ trace = <<"social", "follow_up", "complexity", "rag", "rule">>
        \/ IsFinalFallback

C9_Witness ==
  /\ Called
  /\ rag_outcome.retrieval = "zero"
  /\ rag_response.kind = "rag_sentinel"
  /\ llm_calls = 0
  /\ Asked.complexity >= RagThreshold
  /\ response.kind \in RuleKinds

\* C10 (as claimed): when the embedding, the vector store or the language
\* model fails during a RAG attempt, handle_query goes on to the next step,
\* the rule engine for a query whose score is at least the threshold or else
\* the final fallback, and the apology composed at the RAG boundary is never
\* the response it returns.
C10_FailureNotSurfaced ==
  (Called /\ (rag_outcome.retrieval = "error" \/ rag_outcome.generation = "error")) =>
     /\ response.kind # "rag_apology"
     /\ \/ response.kind \in RuleKinds /\ Asked.complexity >= RagThreshold
        \/ IsFinalFallback

\* the values a call can return as text
AnswerKinds == SocialCategories \cup FollowUpKinds \cup RuleKinds
               \cup {"fallback", "rag_answer", "rag_apology"}

\* C11: for every query, every context argument (a dict or None) and every
\* outcome of the RAG collaborators (answer, zero documents, failure, RAG
\* disabled), a handle_query call returns a non-empty response text and a
\* context: it does not raise and does not return None or an empty text;
\* when a dict was passed in, the returned context is that object.
C11_AlwaysAnswers ==
  Called =>
     /\ response.kind \in AnswerKinds
     /\ response.kind \notin {"None", "rag_empty", "AttributeError"}
     /\ passed = "dict" => returned = "argument"
     /\ passed = "None" => (returned = "created" /\ prev_context = EmptyContext)

C11_Witness ==
  /\ Called
  /\ passed = "dict"
  /\ returned = "argument"
  /\ HasList(prev_context)
  /\ rag_outcome.generation = "empty"
  /\ response.kind = "fallback"
  /\ context = prev_context

\* C12: when the construction of the RAG pipeline failed in an
\* EnhancedChatbot built with use_rag=True, use_rag is off from construction
\* on, and no handle_query call, for any query after any sequence of turns,
\* invokes the RAG pipeline or raises; every turn is answered by a social
\* reply, follow-up resolution, the rule engine or the final fallback.
C12_InitFailureDisablesRag ==
  (rag_chatbot = "unset") =>
     /\ ~use_rag
     /\ Called =>
          /\ rag_outcome = NotCalled
          /\ rag_response = NoneResp
          /\ llm_calls = 0
          /\ "rag" \notin Range(trace)
          /\ response.kind \in SocialCategories \cup FollowUpKinds \cup RuleKinds
                               \cup {"fallback"}

C12_Witness ==
  /\ rag_chatbot = "unset"
  /\ Called
  /\ Asked.complexity >= RagThreshold
  /\ Asked.intent = "none"
  /\ HasList(prev_context)
  /\ response.kind = "fallback"
  /\ trace = <<"social", "follow_up", "complexity", "rule", "fallback">>

\* for every query text: whether the normalized text matches a simple
\* template, how many complexity keywords it contains, and whether the query
\* contains "?", " and " or " or "
Templated ==
  Tabulate([q \in QueryIds |->
     \E i \in DOMAIN simple_patterns : SimpleMatch(Strip(Lower(Queries[q])), simple_patterns[i])])

KeywordHits ==
  Tabulate([q \in QueryIds |->
     Cardinality({i \in DOMAIN complex_indicators :
                    Contains(Strip(Lower(Queries[q])), complex_indicators[i])})])

Conjoined ==
  Tabulate([q \in QueryIds |->
     \/ Contains(Queries[q], <<"?">>)
     \/ Contains(Strip(Lower(Queries[q])), <<" ","a","n","d"," ">>)
     \/ Contains(Strip(Lower(Queries[q])), <<" ","o","r"," ">>)])

\* min(10, 5 + k + 2c), the score in tenths claimed for a query that matches
\* no simple template
ClaimedScore(k, c) == IF 5 + k + 2 * c < 10 THEN 5 + k + 2 * c ELSE 10

\* C13: the complexity score of a query is 0.2 when the normalized query
\* matches a simple template and otherwise min(1.0, 0.5 + 0.1 * (number of
\* complexity keywords present) + 0.2 if the query contains "?", " and " or
\* " or "); it lies in [0,1], the score of "hi" is 0.2, and a query with at
\* least 4 keyword hits and a question mark scores at least 0.9 (scores in
\* tenths).
C13_ComplexityScore ==
  Called =>
     /\ Asked.complexity = IF Templated[query] THEN 2
                           ELSE ClaimedScore(KeywordHits[query],
                                             IF Conjoined[query] THEN 1 ELSE 0)
     /\ Asked.complexity \in 0..10
     /\ query = QueryOf(Q_hi) => Asked.complexity = 2
     /\ (~Templated[query] /\ KeywordHits[query] >= 4 /\ Contains(Queries[query], <<"?">>)) =>
           Asked.complexity >= 9

\* the query of the spec: four keywords and a question mark, capped at 1.0
C13_Witness ==
  /\ query = QueryOf(Q_analyze)
  /\ ~Templated[query]
  /\ KeywordHits[query] = 4
  /\ Conjoined[query]
  /\ Asked.complexity = 10
  /\ "complexity" \in Range(trace)

\* ------------------------------------------------------------------- C14
\* the ranks and ids of a last_list, and whether the dict has one
RanksAndIds(held) ==
  [has |-> held.has,
   list |-> [k \in DOMAIN held.list |-> [rank |-> held.list[k].rank, id |-> held.list[k].id]]]

\* the dict new is one that a call of conversation s on
\* Queries[sessions[s].pending] can leave, computed from the dict of s and
\* from nothing of another conversation
OwnResult(s, new) ==
  \E seed \in SeedsFor(sessions[s].pending) :
    \/ new = handle_query(QueryAnalysis[sessions[s].pending], sessions[s].context, df, tie,
                          use_rag, rag_chatbot, RagThreshold, seed, NotCalled).context
    \/ \E rag \in RagOutcomes :
         new = handle_query(QueryAnalysis[sessions[s].pending], sessions[s].context, df, tie,
                            use_rag, rag_chatbot, RagThreshold, seed, rag).context

C14_Step ==
  /\ \A s \in Sessions :
       sessions'[s] # sessions[s] =>
         /\ \A o \in Sessions \ {s} : sessions'[o] = sessions[o]
         /\ sessions[s].pending # 0 => OwnResult(s, sessions'[s].context)
  /\ \A s \in Sessions :
       RanksAndIds(sessions'[s].context) = RanksAndIds(sessions'[s].alone)

\* C14: when two conversations, each with its own context dict, are served by
\* the same chatbot and frame with their calls overlapping in any order, a
\* call of one conversation changes nothing of the other conversation, the
\* dict it leaves is computed from its own dict only, and after every call the
\* ranks and ids of the last_list of a conversation are those of the same
\* conversation served alone.
C14_SessionIsolation == [][C14_Step]_vars

\* both conversations hold a list of their own, the call of one returned
\* while the call of the other was in progress, and the offers that the
\* shared generator gave differ from those of the conversation served alone
C14_Witness ==
  /\ HasList(sessions["a"].context)
  /\ HasList(sessions["b"].context)
  /\ RanksAndIds(sessions["a"].context) # RanksAndIds(sessions["b"].context)
  /\ sessions["a"].context # sessions["a"].alone
  /\ sessions["b"].pending # 0

\* ------------------------------------------------------------------- C15
\* the last call passed the social step and the follow-up step: its query
\* has no social trigger, and it has no follow-up phrase or there was no
\* list to resolve it against
PastFollowUp ==
  /\ Called
  /\ Asked.social = "none"
  /\ Asked.follow_up < 0 \/ ~HasList(prev_context)

\* position of the first occurrence of step in the trace, 0 when absent
StepAt(step) ==
  IF step \in Range(trace)
  THEN CHOOSE i \in DOMAIN trace : trace[i] = step /\ \A j \in 1..(i - 1) : trace[j] # step
  ELSE 0

\* what the rule engine returns for the query and the dict of the last call
\* (whether it returns something does not depend on the generator)
RuleResult == _handle_rule_based_intents(Asked, prev_context, df, tie, 0)

\* C15: for a query with no social trigger and no resolvable follow-up whose
\* complexity score is below the RAG threshold, the rule engine runs before
\* any RAG call, and when it produces a result that result is returned and
\* the RAG pipeline is not invoked in the turn; the pipeline is reached only
\* after the rule engine produced nothing.
C15_RuleFirst ==
  (PastFollowUp /\ Asked.complexity < RagThreshold) =>
     /\ StepAt("rule") > 0
     /\ StepAt("rag") > 0 => StepAt("rule") < StepAt("rag")
     /\ RuleResult.resp # NoneResp =>
          /\ response.kind = RuleResult.resp.kind
          /\ response.kind \in RuleKinds
          /\ RanksAndIds(context) = RanksAndIds(RuleResult.context)
          /\ rag_outcome = NotCalled
          /\ llm_calls = 0
          /\ StepAt("rag") = 0
     /\ rag_outcome # NotCalled => RuleResult.resp = NoneResp

\* a simple query with an intent trigger was answered by the rule engine of a
\* chatbot whose pipeline is on, with no RAG call
C15_Witness ==
  /\ PastFollowUp
  /\ Asked.complexity < RagThreshold
  /\ use_rag /\ rag_chatbot = "object"
  /\ response.kind = "churn_list"
  /\ rag_outcome = NotCalled

\* ------------------------------------------------------------------- C16
\* RAG is enabled and available
RagEnabled == use_rag /\ rag_chatbot = "object"

\* The order of a turn whose score is at least the threshold, when the
\* answers of the pipeline that count as not usable are those of the kinds
\* unusable.
RagFirst(unusable) ==
  (PastFollowUp /\ Asked.complexity >= RagThreshold) =>
     /\ RagEnabled =>
          /\ rag_outcome # NotCalled
          /\ StepAt("rag") > 0
          /\ StepAt("rule") > 0 => StepAt("rag") < StepAt("rule")
          /\ rag_response.kind \notin unusable =>
               /\ response = rag_response
               /\ StepAt("rule") = 0
               /\ context = prev_context
          /\ StepAt("rule") > 0 => rag_response.kind \in unusable
     /\ ~RagEnabled => (rag_outcome = NotCalled /\ StepAt("rule") > 0)

\* C16 (as claimed): for a query whose score is at least the threshold, with
\* RAG enabled, the pipeline is invoked before the rule engine; when it
\* returns a text that is not empty and is not the sentinel, that text is the
\* response, the rule engine is not run and last_list is unchanged even when
\* the query has an intent trigger; the rule engine is attempted only after
\* RAG was unavailable or returned the empty text or the sentinel.
C16_RagFirst == RagFirst({"rag_empty", "rag_sentinel"})

\* the same order when every text that contains the sentence of the sentinel
\* counts as not usable, which is the test handle_query applies
C16_RagFirstByPhrase ==
  RagFirst({"rag_empty", "rag_sentinel", "rag_answer_quoting_sentinel"})

\* a query with an intent trigger and a score of at least the threshold was
\* answered by the pipeline while the caller held a list, which it still holds
C16_Answered ==
  /\ PastFollowUp
  /\ Asked.complexity >= RagThreshold
  /\ Asked.intent = "churn"
  /\ rag_response.kind = "rag_answer"
  /\ response = rag_response
  /\ HasList(context)

\* ------------------------------------------------------------------- C17
\* the order of the intents as declared
DeclaredOrder ==
  <<"churn", "high_risk", "low_risk", "high_value", "upsell", "segment", "customer">>

\* the intents that have a trigger that is a substring of the normalized text
IntentsHit(qtext) ==
  { IntentNames[i] : i \in { j \in DOMAIN intents :
        \E k \in DOMAIN intents[j] : Contains(Strip(Lower(qtext)), intents[j][k]) } }

\* the earliest of them in the declared order, "none" when there is none
EarliestIntent(qtext) ==
  IF IntentsHit(qtext) = {} THEN "none"
  ELSE DeclaredOrder[CHOOSE p \in DOMAIN DeclaredOrder :
                       /\ DeclaredOrder[p] \in IntentsHit(qtext)
                       /\ \A r \in 1..(p - 1) : DeclaredOrder[r] \notin IntentsHit(qtext)]

Earliest == Tabulate([q \in QueryIds |-> EarliestIntent(Queries[q])])

\* how many intents have a trigger in the query
HitCount == Tabulate([q \in QueryIds |-> Cardinality(IntentsHit(Queries[q]))])

\* the replies of the branch of an intent
BranchKinds(intent) ==
  CASE intent \in {"churn", "high_risk"} -> {"churn_list"}
    [] intent = "low_risk" -> {"low_risk_list", "no_low_risk"}
    [] intent = "high_value" -> {"high_value_list", "no_high_value"}
    [] intent = "upsell" -> {"upsell_list", "no_upsell"}
    [] intent = "segment" -> {"segment_distribution"}
    [] intent = "customer" -> {"customer_detail", "customer_not_found"}
    [] OTHER -> {}

\* C17: intent matching is first-match in the declared order churn,
\* high_risk, low_risk, high_value, upsell, segment, customer: for every
\* query the intent that match_intent selects, and whose branch answers when
\* the rule engine answers, is the earliest intent in that order that has a
\* trigger that is a substring of the normalized query, and no branch is
\* executed when no intent has one.
C17_FirstMatch ==
  Called =>
     /\ Asked.intent = Earliest[query]
     /\ response.kind \in RuleKinds => response.kind \in BranchKinds(Earliest[query])
     /\ (StepAt("rule") > 0 /\ Earliest[query] \notin {"none", "customer"}) =>
          response.kind \in BranchKinds(Earliest[query])
     /\ Earliest[query] = "none" =>
          (response.kind \notin RuleKinds /\ context = prev_context)

\* a query with triggers of two intents (segment and customer) was answered
\* by the branch of the earlier one
C17_Witness ==
  /\ Called
  /\ HitCount[query] > 1
  /\ Earliest[query] = "segment"
  /\ "customer" \in IntentsHit(Queries[query])
  /\ response.kind = "segment_distribution"

\* ------------------------------------------------------------------- C18
\* the rows of the frame with churn_prob < 0.2
LowRiskRows == { i \in DOMAIN df : df[i].churn_prob < LowRiskBelow }

\* the row of the frame with customer id ident, 0 when there is none
RowOf(ident) ==
  IF \E i \in DOMAIN df : df[i].customer_id = ident
  THEN CHOOSE i \in DOMAIN df : df[i].customer_id = ident
  ELSE 0

\* list holds min(10, number of low-risk rows) different low-risk rows in
\* ascending churn_prob order, and no row left out has a lower churn_prob
IsLowRiskList(list) ==
  /\ Len(list) = (IF Cardinality(LowRiskRows) < TopN THEN Cardinality(LowRiskRows) ELSE TopN)
  /\ \A k \in DOMAIN list : RowOf(list[k].id) \in LowRiskRows
  /\ \A k, l \in DOMAIN list : k < l =>
        /\ list[k].id # list[l].id
        /\ df[RowOf(list[k].id)].churn_prob <= df[RowOf(list[l].id)].churn_prob
  /\ \A i \in LowRiskRows :
        (\A k \in DOMAIN list : RowOf(list[k].id) # i) =>
           \A k \in DOMAIN list : df[RowOf(list[k].id)].churn_prob <= df[i].churn_prob

\* the stored ranks of the dict held
StoredRanks(held) == { held.list[k].rank : k \in DOMAIN held.list }

C18_Step ==
  /\ (query' # 0 /\ QueryAnalysis[query'].intent = "low_risk" /\ StepAt("rule")' > 0) =>
        IF LowRiskRows # {}
        THEN /\ response'.kind = "low_risk_list"
             /\ context'.has
             /\ IsLowRiskList(context'.list)
        ELSE /\ response'.kind = "no_low_risk"
             /\ response'.text = "No low-risk customers found."
             /\ context' = prev_context'
  /\ response'.kind = "low_risk_list" => QueryAnalysis[query'].intent = "low_risk"
  /\ (response.kind = "no_low_risk" /\ HasList(context)
      /\ QueryAnalysis[query'].social = "none"
      /\ QueryAnalysis[query'].follow_up \in StoredRanks(context)) =>
        /\ response'.kind = "detail"
        /\ \E k \in DOMAIN context.list :
             /\ context.list[k].rank = QueryAnalysis[query'].follow_up
             /\ response'.narrative = customer_insight(df[RowOf(context.list[k].id)])
        /\ context' = context

\* C18: for every frame the list the low_risk intent stores is the (at most
\* 10) rows with churn_prob < 0.2 in ascending churn_prob order; when no row
\* has churn_prob < 0.2 the reply is "No low-risk customers found." and
\* last_list is left as it was, so that a follow-up in the next turn is
\* still resolved against the list an earlier turn stored.
C18_LowRisk == [][C18_Step]_vars

\* no row is low-risk, the reply is the "none found" message and the caller
\* still holds the list of an earlier turn
C18_Witness ==
  /\ response.kind = "no_low_risk"
  /\ HasList(context)
  /\ context = prev_context

\* more than ten rows are low-risk and ten are stored
C18_Cut ==
  /\ response.kind = "low_risk_list"
  /\ Cardinality(LowRiskRows) > TopN
  /\ Len(context.list) = TopN

\* ------------------------------------------------------------------- C19
\* the last call carried a follow-up phrase with a rank while the dict it was
\* given had no last_list, or an empty one
FollowUpWithoutList ==
  /\ Called
  /\ Asked.follow_up >= 0
  /\ ~HasList(prev_context)

\* the pipeline answered a query whose score is at least the threshold
\* before the rule engine was consulted
AnsweredByRag ==
  /\ Asked.complexity >= RagThreshold
  /\ RagUsable(rag_response)
  /\ response = rag_response

\* What a turn with a follow-up phrase and no list does; skipped tells
\* whether the turn may end before the intent is matched.
FallsThrough(skipped) ==
  FollowUpWithoutList =>
     /\ response.kind \notin FollowUpKinds
     /\ Asked.social = "none" =>
          /\ Len(trace) >= 3
          /\ SubSeq(trace, 1, 3) = <<"social", "follow_up", "complexity">>
          /\ StepAt("rule") > 0 \/ skipped
          /\ StepAt("rule") > 0 =>
               response.kind \notin RuleKinds \/ response.kind \in BranchKinds(Asked.intent)
     /\ HasList(context) =>
          (response.kind \in ListKinds /\ response.kind \in BranchKinds(Asked.intent))
     /\ response.kind \notin ListKinds => context = prev_context

\* C19 (as claimed): when the query matches the follow-up pattern but the
\* dict has no last_list (absent or empty), the turn never returns the rank
\* error; it continues with the complexity score and the intent match, and
\* the dict still has no last_list unless the matched intent stores one.
C19_FallsThroughToIntent == FallsThrough(FALSE)

\* C19 (amended): when the query matches the follow-up pattern but the dict
\* has no last_list (absent or empty), the turn never returns the rank error;
\* it continues with the complexity score and with the dispatch that follows
\* it, in which the intent is matched unless the RAG pipeline answers a query
\* whose score is at least the threshold first, and the dict still has no
\* last_list unless the matched intent stores one.
C19_FallsThrough == FallsThrough(AnsweredByRag)

\* a follow-up phrase met an empty last_list and was passed on to the rule
\* engine, whose customer branch answered; the dict is as it was
C19_Witness ==
  /\ FollowUpWithoutList
  /\ prev_context.has
  /\ prev_context.list = <<>>
  /\ StepAt("rule") > 0
  /\ response.kind = "customer_not_found"
  /\ context = prev_context

\* a follow-up phrase met a dict without last_list and the upsell intent of
\* the same query stored one
C19_Stored ==
  /\ FollowUpWithoutList
  /\ ~prev_context.has
  /\ response.kind = "upsell_list"
  /\ HasList(context)

\* a follow-up phrase in a query of high score met no list and the pipeline
\* answered
C19_Rag ==
  /\ FollowUpWithoutList
  /\ AnsweredByRag
  /\ StepAt("rule") = 0

\* ------------------------------------------------------------------- C20
\* the customer branch ran in the last call with the identifier it extracted
CustomerLookup ==
  /\ Called
  /\ StepAt("rule") > 0
  /\ Asked.intent = "customer"
  /\ Asked.customer.found

\* the rows whose customer_id or company_name is the identifier, whatever
\* the case of the letters
MatchingRows(ident) ==
  { i \in DOMAIN df : \/ Lower(df[i].customer_id) = Lower(ident)
                      \/ Lower(df[i].company_name) = Lower(ident) }

\* C20: the identifier extracted from the query is compared without regard
\* to case with customer_id and with company_name; when some row matches, the
\* reply is the insight text of the first matching row in frame order; when
\* none matches, the reply is the "not found" message that suggests the
\* canonical id format; last_list is not changed by either outcome.
C20_CustomerLookup ==
  CustomerLookup =>
     /\ IF MatchingRows(Asked.customer.cid) # {}
        THEN /\ response.kind = "customer_detail"
             /\ \E i \in MatchingRows(Asked.customer.cid) :
                  /\ \A j \in MatchingRows(Asked.customer.cid) : i <= j
                  /\ response.narrative = customer_insight(df[i])
        ELSE /\ response.kind = "customer_not_found"
             /\ response.ident = Asked.customer.cid
             /\ response.text = "No customer matching '{cid}'. Try a customer id like C00001."
     /\ context = prev_context

\* the identifier is the company name of the first row in another case and
\* the customer id of the second row; the first row is described and the list
\* the caller held is still there
C20_Witness ==
  /\ CustomerLookup
  /\ Cardinality(MatchingRows(Asked.customer.cid)) > 1
  /\ response.kind = "customer_detail"
  /\ response.narrative = customer_insight(df[1])
  /\ response.narrative # customer_insight(df[2])
  /\ HasList(context)

\* no row matches and the "not found" message is the reply
C20_NotFound ==
  /\ CustomerLookup
  /\ df # <<>>
  /\ response.kind = "customer_not_found"
  /\ HasList(context)

\* ------------------------------------------------------------------- C21
\* the reasons in the order of the claim
ReasonOrder == <<"high churn probability", "low engagement", "no recent contact">>

\* reasons lists, in the order of ReasonOrder, exactly the members of wanted
ListsInOrder(reasons, wanted) ==
  /\ Range(reasons) = wanted
  /\ Len(reasons) = Cardinality(wanted)
  /\ \A a, b \in DOMAIN reasons : a < b =>
        \E p, r \in DOMAIN ReasonOrder :
           p < r /\ ReasonOrder[p] = reasons[a] /\ ReasonOrder[r] = reasons[b]

\* the reasons that apply to the row described, with the numbers of the claim
Applying ==
  (IF described.churn_prob > 60 THEN {"high churn probability"} ELSE {})
  \cup (IF described.engagement_score < 35 THEN {"low engagement"} ELSE {})
  \cup (IF described.recency_days > 90 THEN {"no recent contact"} ELSE {})

\* C21: for every row the reasons customer_insight lists are exactly "high
\* churn probability" iff churn_prob > 0.6, "low engagement" iff
\* engagement_score < 0.35, "no recent contact" iff recency_days > 90, in that
\* order, or "mixed indicators" when none applies; the urgent-outreach action
\* is recommended iff churn_prob > 0.6, which is iff "high churn probability"
\* is listed, otherwise the generic review action.
C21_InsightReasons ==
  described # <<>> =>
     /\ IF Applying = {}
        THEN insight.reasons = <<"mixed indicators">>
        ELSE ListsInOrder(insight.reasons, Applying)
     /\ insight.action \in {"Recommend outreach: phone call within 48h + 10% renewal incentive.",
                            "Recommend targeted upsell or account review."}
     /\ (insight.action = "Recommend outreach: phone call within 48h + 10% renewal incentive.")
          <=> described.churn_prob > 60
     /\ (insight.action = "Recommend outreach: phone call within 48h + 10% renewal incentive.")
          <=> "high churn probability" \in Range(insight.reasons)

\* a row exactly on the three thresholds was described: no reason applies
C21_Witness ==
  /\ described # <<>>
  /\ described.churn_prob = 60
  /\ described.engagement_score = 35
  /\ described.recency_days = 90
  /\ insight.reasons = <<"mixed indicators">>
  /\ insight.action = "Recommend targeted upsell or account review."

\* a row beyond the three thresholds was described: three reasons in order
C21_All ==
  /\ described # <<>>
  /\ insight.reasons = ReasonOrder

\* ------------------------------------------------------------------- C22
\* the texts RAGChatbot.chat can return
ChatKinds == {"rag_answer", "rag_answer_quoting_sentinel", "rag_empty",
              "rag_sentinel", "rag_apology"}

\* What chat returns in a turn that called it; lost is the kind of the string
\* a failed retrieval is turned into.
ChatReturns(lost) ==
  RagAttempted =>
     /\ rag_response.kind \in ChatKinds
     /\ rag_outcome.retrieval = "error" => rag_response.kind = lost
     /\ rag_outcome.generation = "error" =>
          /\ rag_response.kind = "rag_apology"
          /\ rag_response.text = "I apologize, but I'm having trouble generating a response right now. Please try again."
     /\ rag_outcome.retrieval = "docs" =>
          /\ llm_calls = 1
          /\ rag_outcome.generation = "text" => rag_response.kind = "rag_answer"
          /\ rag_outcome.generation = "quotes_sentinel" =>
               rag_response.kind = "rag_answer_quoting_sentinel"
          /\ rag_outcome.generation = "empty" => rag_response.kind = "rag_empty"

C22_Apology ==
  /\ RagAttempted
  /\ rag_outcome.generation = "error"
  /\ rag_response.kind = "rag_apology"
  /\ llm_calls = 1

\* ------------------------------------------------------------------- C23
\* the answers that do not come from the rule engine
OtherKinds == SocialCategories \cup FollowUpKinds \cup {"fallback"}
              \cup {"rag_answer", "rag_apology"}

C23_Step ==
  /\ context' # context =>
        \/ response'.kind \in ListKinds /\ context'.has
        \/ response'.kind = "segment_distribution" /\ context' = EmptyContext
  /\ response'.kind \in OtherKinds => context' = context
  /\ response'.kind \in RuleKinds \cup OtherKinds
  /\ df' = df

\* C23: over any sequence of turns, last_list differs after a turn from
\* before it only if the response of that turn was produced by an intent of
\* the rule engine (a list-producing intent that stored a list, or the
\* segment intent that cleared it); turns answered by a social reply, a
\* follow-up (found or rank error), a RAG answer or the final fallback leave
\* the whole context unchanged, and no turn changes the frame.
C23_ListChangesByIntentOnly == [][C23_Step]_vars

\* a turn met a stored list, ended in the final fallback after the RAG
\* pipeline was asked, and the list is still there
C23_Witness ==
  /\ response.kind = "fallback"
  /\ RagAttempted
  /\ HasList(context)
  /\ context = prev_context

\* ------------------------------------------------------------------- C24
\* the replies of the intents that produce no ranked list
NonListKinds == {"segment_distribution", "customer_detail", "customer_not_found"}

\* C24 (as claimed): after any turn in which the rule engine executes an
\* intent that does not produce a ranked list (segment distribution,
\* customer lookup), the context holds no last_list, whatever list an
\* earlier turn stored.
C24_NonListIntentsClear ==
  (Called /\ StepAt("rule") > 0 /\ response.kind \in NonListKinds) => ~context.has

\* a customer lookup was answered and the list of an earlier turn is still
\* in the context
C24_ListKept ==
  /\ Called
  /\ response.kind = "customer_detail"
  /\ HasList(prev_context)
  /\ context = prev_context

\* ------------------------------------------------------------------- C25
\* every displayed line carries the rank stored for its customer
ShownAsStored ==
  /\ context.has
  /\ Len(response.lines) = Len(context.list)
  /\ \A k \in DOMAIN response.lines :
       \E i \in DOMAIN context.list :
          /\ context.list[i].id = response.lines[k].id
          /\ context.list[i].rank = response.lines[k].num

\* C25 (as claimed): for each list-producing intent (churn, high_risk,
\* low_risk, high_value, upsell) and every frame, the number printed in front
\* of a customer in the response equals the rank stored for the id of that
\* customer in last_list, so that "give details for k" resolves to the
\* customer shown as item k.
C25_ShownRankIsStoredRank ==
  (Called /\ response.kind \in ListKinds) => ShownAsStored

\* the same for the lists other than the high-value list
C25_OtherLists ==
  (Called /\ response.kind \in ListKinds \ {"high_value_list"}) => ShownAsStored

\* the high-value list shows a customer under a number that is stored for
\* another customer
C25_Mismatch ==
  /\ Called
  /\ response.kind = "high_value_list"
  /\ \E k \in DOMAIN response.lines, i \in DOMAIN context.list :
        /\ context.list[i].rank = response.lines[k].num
        /\ context.list[i].id # response.lines[k].id

\* ------------------------------------------------------------------- C26
\* how many times the rule engine ran in the last call
RuleRuns == Cardinality({i \in DOMAIN trace : trace[i] = "rule"})

\* C26: in every handle_query call the rule engine runs at most once, before
\* the RAG attempt when the score is below the threshold and after it when
\* the score is at least the threshold, never both; and no call has the rule
\* engine change last_list and then returns a response of the RAG pipeline
\* or the final fallback.
C26_RuleOnce ==
  Called =>
     /\ RuleRuns <= 1
     /\ (StepAt("rule") > 0 /\ StepAt("rag") > 0) =>
          (Asked.complexity < RagThreshold <=> StepAt("rule") < StepAt("rag"))
     /\ (StepAt("rule") > 0 /\ StepAt("rag") = 0 /\ Asked.complexity >= RagThreshold) => ~RagEnabled
     /\ response.kind \in {"rag_answer", "rag_apology", "fallback"} => context = prev_context
     /\ context # prev_context => (StepAt("rule") > 0 /\ response.kind \in RuleKinds)

\* the pipeline was asked first for a query of high score, gave nothing
\* usable, and the one run of the rule engine that followed stored a list
C26_Witness ==
  /\ Called
  /\ Asked.complexity >= RagThreshold
  /\ trace = <<"social", "follow_up", "complexity", "rag", "rule">>
  /\ rag_response.kind = "rag_empty"
  /\ response.kind \in ListKinds
  /\ context # prev_context

\* the rule engine ran first for a query of low score and returned nothing,
\* and the turn was answered by the pipeline with the context as it was
C26_RuleThenRag ==
  /\ Called
  /\ trace = <<"social", "follow_up", "complexity", "rule", "rag">>
  /\ response.kind = "rag_answer"
  /\ HasList(context)
  /\ context = prev_context

\* ------------------------------------------------------------------- C27
\* C27 (as claimed): run side by side on the same frame and the same
\* sequence of queries, EnhancedChatbot.handle_query with RAG disabled and
\* the rule-only path of the module-level handle_query take the same branch
\* on every turn (same social category, same follow-up outcome, same intent,
\* or fallback) and leave the same last_list in the context.
C27_TwinsAgree ==
  Called =>
     /\ response.kind = standalone.response.kind
     /\ context = standalone.context

\* where the two paths do agree: a query without a social word, even as part
\* of another word, that the follow-up step of the class passes on is
\* answered by the same branch with the same lines
C27_AgreeOnIntent ==
  (/\ Called
   /\ Asked.social = "none"
   /\ Asked.contained = "none"
   /\ response.kind \notin FollowUpKinds) =>
      /\ response.kind = standalone.response.kind
      /\ Len(response.lines) = Len(standalone.response.lines)
      /\ \A k \in DOMAIN response.lines :
           /\ response.lines[k].id = standalone.response.lines[k].id
           /\ response.lines[k].num = standalone.response.lines[k].num
      /\ ~standalone.context.has

\* "show high-value customers" is a list for the class and a greeting for
\* the module-level function, which finds "hi" in "high"
C27_GreetsListRequest ==
  /\ query = QueryOf(Q_high_value)
  /\ response.kind = "high_value_list"
  /\ standalone.response.kind = "greeting"

\* a follow-up that the class resolves is a customer lookup for the
\* module-level function
C27_NoFollowUp ==
  /\ Called
  /\ response.kind = "detail"
  /\ standalone.response.kind \in {"customer_detail", "customer_not_found"}
====
